---- MODULE Spec2Model ----
(***************************************************************************)
(* Emergency-department discrete-event simulation (edems): the processes   *)
(* of SingleSiteSim and the shared counters and queues they contend for.   *)
(* One action is one run of a process from a suspension point (a simpy     *)
(* yield) to the next.  Timestamps other than the arrival time are kept    *)
(* as set / not set.                                                       *)
(***************************************************************************)
EXTENDS Integers, Sequences, FiniteSets, TLC

\* ------------------------------------------------------------------ bounds
MaxPatients == 2
MaxHour == 1
BedsPerArea == 1
FtSpaces == 1
DownloadCapacity == 1
MedicineBeds == 1

\* ------------------------------------------------------------------ state
VARIABLES
  now,              \* env.now, in minutes
  patient_id,       \* Patient._id
  patients,         \* self.patients: pid -> record (fields and its processes)
  acute_q,          \* self.acute_q
  fasttrack_q,      \* self.fasttrack_q
  _busy,            \* self._busy: acute area -> occupied beds
  _ft_busy,         \* self._ft_busy
  _download_busy,   \* self._download_busy
  _download_wait,   \* self._download_wait
  _unit_busy,       \* self._unit_busy
  _unit_wait,       \* self._unit_wait
  _doctors_by_area, \* doctor name -> [active_panel, signed_up_by_abs_hour]
  _offload_tokens,  \* level of the offload Container and its queue of getters
  scheduler,        \* _offload_staff_scheduler: "sleep" | "due"
  generators,       \* the two arrival generators: hour_idx, offsets, position
  doctor_table,     \* self._doctors_by_area: "absent" | "built" | "raised"
  cfg,              \* self.cfg: beds, fast-track spaces, doctors
  by_area,          \* self.docmgr.by_area: doctor name -> [active_panel, signed_up_by_abs_hour]
  _nurse_panels,    \* the nurse Resources of each acute area: users and queue
  workup,           \* the workup timestamps set on patients: <<pid, field>>
  exception,        \* the exception that left env.run(): "none" or its origin
  eventlog,         \* self.eventlog.rows, as a set of records
  rows              \* self.eventlog.rows, in append order with timestamps

vars == <<now, patient_id, patients, acute_q, fasttrack_q, _busy, _ft_busy,
          _download_busy, _download_wait, _unit_busy, _unit_wait,
          _doctors_by_area, _offload_tokens, scheduler, generators,
          doctor_table, cfg, by_area, _nurse_panels, workup, exception, eventlog,
          rows>>

\* ----------------------------------------------------------- configuration
HourMinutes == 60
DayMinutes == 1440

\* self._areas = list(self.cfg.areas.keys())
AcuteAreas == DOMAIN cfg.beds
_ft_name == "FAST"
_ft_enabled == TRUE
_cap == [a \in AcuteAreas |-> cfg.beds[a]]
_ft_cap == cfg.assessment_spaces
_download_cap == DownloadCapacity

\* cfg.inpatient.units: the services a consult can pick, with their beds.
Units == {"Medicine", "Obs", "Surgery"}
_unit_cap == [u \in Units |-> IF u = "Medicine" THEN MedicineBeds
                              ELSE IF u = "Obs" THEN 0 ELSE 1]
\* cfg.inpatient.service_to_unit: Surgery is mapped to a ward that is not
\* among the configured units.
service_to_unit(svc) == IF svc = "Surgery" THEN "SurgicalWard" ELSE svc

\* cfg.doctors, in name order (the order the tie-break sorts by).
DoctorNames == <<"DrA", "DrF">>
DoctorConfig == cfg.doctors
Doctors == {DoctorNames[i] : i \in 1..Len(DoctorNames)}

\* cfg.areas[a].nurse_model of every acute area: none configured.
NurseOff == [model |-> "off", ratio |-> 0, team_nurses |-> 0]

\* A department whose beds are the scarce resource: the acute doctor could
\* take one patient more than the area has beds.  Imaging is ordered for
\* every patient (cfg.orders.di_prob = 1, one modality).  arrivals is the
\* number of arrivals of the run that are followed.
BedBound ==
  [beds |-> [A |-> BedsPerArea],
   assessment_spaces |-> FtSpaces,
   di_prob |-> 1,
   arrivals |-> MaxPatients,
   nurse_model |-> NurseOff,
   lab_prob |-> 1,
   doctors |->
     [DrA |-> [area |-> "A", start_min |-> 0, shift_min |-> 1440,
               max_panel |-> BedsPerArea + 1, hourly_caps |-> <<>>],
      DrF |-> [area |-> "FAST", start_min |-> 0, shift_min |-> 60,
               max_panel |-> FtSpaces, hourly_caps |-> <<1>>]]]

\* A department whose doctors are the scarce resource: the acute area has
\* one bed more than its doctor's panel, and the fast-track doctor signs
\* up once per hour, the one-entry cap list being indexed cyclically.
DoctorBound ==
  [beds |-> [A |-> BedsPerArea + 1],
   assessment_spaces |-> FtSpaces,
   di_prob |-> 1,
   arrivals |-> MaxPatients,
   nurse_model |-> NurseOff,
   lab_prob |-> 1,
   doctors |->
     [DrA |-> [area |-> "A", start_min |-> 0, shift_min |-> 1440,
               max_panel |-> BedsPerArea, hourly_caps |-> <<>>],
      DrF |-> [area |-> "FAST", start_min |-> 0, shift_min |-> 1440,
               max_panel |-> FtSpaces + 1, hourly_caps |-> <<1>>]]]

\* One acute bed and one acute doctor who takes one patient at a time.
OneBedOneDoctor ==
  [BedBound EXCEPT !.doctors.DrA.max_panel = BedsPerArea]

\* An acute area that no doctor is assigned to: both doctors work in fast
\* track.
UncoveredArea ==
  [BedBound EXCEPT !.doctors.DrA.area = _ft_name]

\* A doctor assigned to an area that does not exist, while every area that
\* places patients has a doctor: fast track has no assessment space.
UnknownDoctorArea ==
  [BedBound EXCEPT !.assessment_spaces = 0, !.doctors.DrF.area = "Nowhere"]

\* Two acute areas of one bed each and no fast track.  The doctor of area A
\* starts the shift after the first hour, the doctor of area B works all
\* day.
TwoAreas ==
  [beds |-> [A |-> BedsPerArea, B |-> BedsPerArea],
   assessment_spaces |-> 0,
   di_prob |-> 1,
   arrivals |-> MaxPatients,
   nurse_model |-> NurseOff,
   lab_prob |-> 1,
   doctors |->
     [DrA |-> [area |-> "A", start_min |-> HourMinutes, shift_min |-> HourMinutes,
               max_panel |-> BedsPerArea, hourly_caps |-> <<>>],
      DrF |-> [area |-> "B", start_min |-> 0, shift_min |-> DayMinutes,
               max_panel |-> BedsPerArea, hourly_caps |-> <<>>]]]

\* A department that admits: two acute beds, an acute doctor with room for
\* every patient, no fast track, and one arrival more followed, so that two
\* patients can wait for the unit a third one occupies.
WardBound ==
  [beds |-> [A |-> BedsPerArea + 1],
   assessment_spaces |-> 0,
   di_prob |-> 1,
   arrivals |-> MaxPatients + 1,
   nurse_model |-> NurseOff,
   lab_prob |-> 1,
   doctors |->
     [DrA |-> [area |-> "A", start_min |-> 0, shift_min |-> DayMinutes,
               max_panel |-> MaxPatients + 1, hourly_caps |-> <<>>],
      DrF |-> [area |-> _ft_name, start_min |-> 0, shift_min |-> DayMinutes,
               max_panel |-> 1, hourly_caps |-> <<>>]]]

\* The department of BedBound with one arrival more followed, so that two
\* critical patients can wait for the download slot a third one holds.
HoldingBound ==
  [BedBound EXCEPT !.arrivals = MaxPatients + 1]

\* Nursing by ratio: two acute beds with one nurse per bed, hence two nurse
\* panels, so that of three patients the first and the third share a
\* panel; both doctors work all day and have room for every patient.
NurseRatio ==
  [beds |-> [A |-> BedsPerArea + 1],
   assessment_spaces |-> FtSpaces,
   di_prob |-> 1,
   arrivals |-> MaxPatients + 1,
   nurse_model |-> [model |-> "ratio", ratio |-> 1, team_nurses |-> 0],
   lab_prob |-> 1,
   doctors |->
     [DrA |-> [area |-> "A", start_min |-> 0, shift_min |-> DayMinutes,
               max_panel |-> MaxPatients + 1, hourly_caps |-> <<>>],
      DrF |-> [area |-> _ft_name, start_min |-> 0, shift_min |-> DayMinutes,
               max_panel |-> FtSpaces, hourly_caps |-> <<>>]]]

\* Nursing by team: the same department with one pooled nurse, two
\* arrivals followed.
NurseTeam ==
  [NurseRatio EXCEPT !.arrivals = MaxPatients,
                     !.nurse_model = [model |-> "team", ratio |-> 0,
                                      team_nurses |-> 1]]

\* Nursing by ratio with one nurse for the two beds: a single panel, which
\* the two arrivals followed share.
NurseRatioShared ==
  [NurseRatio EXCEPT !.arrivals = MaxPatients, !.nurse_model.ratio = 2]

\* Two doctors in the acute area: one who works all day with room for two
\* patients and no hourly cap, one who works the first hour, takes one
\* patient and signs up once per hour.
SharedArea ==
  [BedBound EXCEPT !.doctors.DrA.max_panel = 2,
                   !.doctors.DrF.area = "A",
                   !.doctors.DrF.max_panel = 1]

\* The same two doctors, the first on a shift of 24.5 hours that started
\* half an hour before midnight.
SharedAreaLongShift ==
  [SharedArea EXCEPT !.doctors.DrA.start_min = 1410,
                     !.doctors.DrA.shift_min = 1470]

\* The shifts cfg.doctors can give the acute doctor: start offsets within
\* the day, and durations that are empty, short, half a day, a whole day
\* and longer than a day.
ShiftStarts == {0, 60, 720, 1410}
ShiftLengths == {-30, 0, 60, 720, 1440, 1470}
ShiftConfigs ==
  {[BedBound EXCEPT !.doctors.DrA.start_min = s, !.doctors.DrA.shift_min = d] :
     s \in ShiftStarts, d \in ShiftLengths}

\* _init_doctors: every acute area, and fast track when it is enabled with
\* assessment spaces, has at least one doctor.
DoctorsCovered(c) ==
  \A area \in DOMAIN c.beds \cup
               (IF _ft_enabled /\ c.assessment_spaces > 0 THEN {_ft_name}
                ELSE {}) :
    \E d \in DOMAIN c.doctors : c.doctors[d].area = area

\* _validate_doctors: every doctor's area is an acute area or fast track.
DoctorsKnown(c) ==
  \A d \in DOMAIN c.doctors : c.doctors[d].area \in DOMAIN c.beds \cup {_ft_name}

\* cfg.ems.offload_nurses_per_hour: 24 entries, here a constant profile.
offload_nurses_per_hour == [h \in 0..23 |-> 1]

AcuityLevels == {10}
Pids == 1..(MaxPatients + 1)
Hours == 0..MaxHour

\* ---------------------------------------------------------------- helpers
Max(a, b) == IF a >= b THEN a ELSE b

\* list.remove / deque.remove of a present element (first occurrence).
RECURSIVE Remove(_, _)
Remove(q, x) ==
  IF q = <<>> THEN <<>>
  ELSE IF Head(q) = x THEN Tail(q) ELSE <<Head(q)>> \o Remove(Tail(q), x)

InSeq(q, x) == \E i \in 1..Len(q) : q[i] = x

\* The keyword arguments of one EventLog.add call.
Event(etype, pid, unit) == [event |-> etype, pid |-> pid, unit |-> unit]

\* Mutation: the new row is put in front of the earlier ones.
AddInFront(rs, t, ev) ==
  <<[t |-> t, event |-> ev.event, pid |-> ev.pid, unit |-> ev.unit]>> \o rs

\* EventLog.add: row = {"t": float(t), "event": etype, **kwargs};
\* self.rows.append(row)
add(rs, t, ev) ==
  Append(rs, [t |-> t, event |-> ev.event, pid |-> ev.pid, unit |-> ev.unit])

\* Patient.__init__: the record of a patient that has not arrived yet.
\* Mutation: the length of stay is the clock reading at disposition.
LosFromClockStart(disposition_time, arrival_time) == disposition_time

\* p.los_minutes = p.disposition_time - p.arrival_time
LosMinutes(disposition_time, arrival_time) == disposition_time - arrival_time

\* A timestamp or duration not yet written (None in the source).
None == -1

NoPatient ==
  [created |-> FALSE, is_ems |-> FALSE, ems_direct |-> FALSE,
   is_critical |-> FALSE, area |-> "A", one_touch |-> 0,
   two_touch |-> 0, three_touch |-> 0, acuity |-> 0,
   acuity_bonus |-> 0, arrival_time |-> 0, lwbs |-> 0,
   bed_start |-> FALSE, bed_end |-> FALSE, disposition_time |-> None,
   los_minutes |-> None,
   offload_end |-> FALSE, download_start |-> FALSE, download_end |-> FALSE,
   doctor_name |-> "none", consult_admit |-> 0, admit |-> 0,
   admit_unit |-> "none", inpatient_start |-> FALSE, inpatient_end |-> FALSE,
   admit_event |-> "none", requires_di |-> 0, di_start |-> FALSE,
   offload |-> "none", clear |-> "none", watch |-> "none", treat |-> "none",
   stay |-> "none"]

\* A timestamp of the workup is set on the patient: lab_start, lab_end,
\* nurse_assess_start, nurse_assess_end, di_end, or a reassess_start row
\* has been logged.
Did(pid, stamp) == <<pid, stamp>> \in workup

\* The timestamps set on the patient, with some more.
Stamped(w, pid, stamps) == w \cup {<<pid, stamp>> : stamp \in stamps}

one_touch(p) == p.one_touch
two_touch(p) == p.two_touch
three_touch(p) == p.three_touch

\* ------------------------------------------------------------------ doctors
_day_anchor(now_min) == (now_min \div DayMinutes) * DayMinutes
_abs_hour(now_min) == now_min \div HourMinutes
_hour_of_day(now_min) == (now_min % DayMinutes) \div HourMinutes

\* Shifts repeat daily; a shift may wrap past midnight.
_doc_on_shift(d, now_min) ==
  LET day0 == _day_anchor(now_min)
      s == day0 + DoctorConfig[d].start_min
      e == s + DoctorConfig[d].shift_min
  IN IF DoctorConfig[d].shift_min >= DayMinutes THEN TRUE
     ELSE IF e <= day0 + DayMinutes THEN s <= now_min /\ now_min < e
     ELSE now_min >= s \/ now_min < e - DayMinutes

\* DoctorManager.on_shift, the shift test of the doctor manager.
on_shift(d, now_min) ==
  LET start == DoctorConfig[d].start_min
      dur == DoctorConfig[d].shift_min
      day_min == now_min % DayMinutes
  IN IF dur <= 0 THEN FALSE
     ELSE IF start + dur < DayMinutes
     THEN start <= day_min /\ day_min < start + dur
     ELSE LET end == (start + dur) % DayMinutes
          IN day_min >= start \/ day_min < end

\* DoctorManager.can_signup: on shift, room on the panel, under the cap of
\* the hour (hour_cap indexes the cap list by int(now // 60) % 24).
can_signup(docs, d, now_min) ==
  LET caps == DoctorConfig[d].hourly_caps
      idx == (now_min \div HourMinutes) % 24
      signed == docs[d].signed_up_by_abs_hour[now_min \div HourMinutes]
  IN /\ on_shift(d, now_min)
     /\ ~(docs[d].active_panel >= DoctorConfig[d].max_panel)
     /\ (caps = <<>> \/ signed < caps[(idx % Len(caps)) + 1])

\* DoctorManager.try_signup: the doctor booked ("none" when nobody is
\* eligible) and the table after the booking.
try_signup(docs, area, now_min) ==
  LET eligible == {i \in 1..Len(DoctorNames) :
                     /\ DoctorConfig[DoctorNames[i]].area = area
                     /\ can_signup(docs, DoctorNames[i], now_min)}
      before(i, j) ==
        \/ docs[DoctorNames[i]].active_panel < docs[DoctorNames[j]].active_panel
        \/ /\ docs[DoctorNames[i]].active_panel = docs[DoctorNames[j]].active_panel
           /\ i <= j
  IN IF eligible = {} THEN [doc |-> "none", by_area |-> docs]
     ELSE LET doc == DoctorNames[CHOOSE i \in eligible :
                                   \A j \in eligible : before(i, j)]
              ah == now_min \div HourMinutes
          IN [doc |-> doc,
              by_area |-> [docs EXCEPT ![doc].signed_up_by_abs_hour[ah] = @ + 1,
                                       ![doc].active_panel = @ + 1]]

\* DoctorManager.release_panel
release_panel(docs, d) ==
  [docs EXCEPT ![d].active_panel = IF @ - 1 > 0 THEN @ - 1 ELSE 0]

\* Mutation: the panel limit is not tested.
PanelHasRoomUnchecked(docs, d) == TRUE

\* not (doc["active_panel"] >= doc["max_panel"])
PanelHasRoom(docs, d) == docs[d].active_panel < DoctorConfig[d].max_panel

\* Mutation: the hourly cap is not tested.
UnderHourCapUnchecked(d, signed, now_min) == TRUE

\* signed < _doc_hour_cap(doc, now): an empty cap list is math.inf.
UnderHourCap(d, signed, now_min) ==
  LET caps == DoctorConfig[d].hourly_caps
  IN caps = <<>> \/ signed < caps[(_hour_of_day(now_min) % Len(caps)) + 1]

_doc_can_signup(docs, d, now_min) ==
  /\ _doc_on_shift(d, now_min)
  /\ PanelHasRoom(docs, d)
  /\ UnderHourCap(d, docs[d].signed_up_by_abs_hour[_abs_hour(now_min)], now_min)

\* Least loaded first, then by name; "none" when nobody is eligible.
_choose_doctor(docs, area, now_min) ==
  LET eligible == {i \in 1..Len(DoctorNames) :
                     /\ DoctorConfig[DoctorNames[i]].area = area
                     /\ _doc_can_signup(docs, DoctorNames[i], now_min)}
      before(i, j) ==
        \/ docs[DoctorNames[i]].active_panel < docs[DoctorNames[j]].active_panel
        \/ /\ docs[DoctorNames[i]].active_panel = docs[DoctorNames[j]].active_panel
           /\ i <= j
  IN IF eligible = {} THEN "none"
     ELSE DoctorNames[CHOOSE i \in eligible : \A j \in eligible : before(i, j)]

\* The booking half of _assign_doctor: one signup this hour, one panel slot.
BookDoctor(docs, d, now_min) ==
  [docs EXCEPT ![d].active_panel = @ + 1,
               ![d].signed_up_by_abs_hour[_abs_hour(now_min)] = @ + 1]

\* Mutation: the discharge leaves the patient on the doctor's panel.
PanelKept(docs, d) == docs

_release_doctor_panel(docs, d) ==
  [docs EXCEPT ![d].active_panel = Max(0, @ - 1)]

\* ------------------------------------------------- EMS download holding
AcuityBonusTenths == 4

\* Mutation: the holding area admits one patient too many.
HasDownloadSpaceOffByOne(busy) == busy <= _download_cap

\* self._download_busy < self._download_cap
HasDownloadSpace(busy) == busy < _download_cap

\* Mutation: a patient entering download holding is not queued for a bed.
PlaceIntoDownloadUnqueued(S, pid) ==
  [S EXCEPT !.download_busy = @ + 1,
            !.patients[pid].download_start = TRUE,
            !.patients[pid].acuity_bonus = @ + 1]

\* _place_into_download on the part of the state it touches.
_place_into_download(S, pid) ==
  [S EXCEPT !.download_busy = @ + 1,
            !.patients[pid].download_start = TRUE,
            !.patients[pid].acuity_bonus = @ + 1,
            !.acute_q = Append(@, pid),
            !.log = @ \cup {Event("enqueue", pid, "ACUTE")},
            !.rows = add(@, now, Event("enqueue", pid, "ACUTE"))]

\* Mutation: the backfill takes the patient who joined the waitlist last.
RECURSIVE FillNewestFromWaitlist(_)
FillNewestFromWaitlist(S) ==
  IF HasDownloadSpace(S.download_busy) /\ S.download_wait # <<>>
  THEN LET q == S.download_wait
           pid_wait == q[Len(q)]
           S1 == [S EXCEPT !.download_wait = SubSeq(q, 1, Len(q) - 1)]
       IN IF S1.patients[pid_wait].download_start
          THEN FillNewestFromWaitlist(S1)
          ELSE FillNewestFromWaitlist(_place_into_download(S1, pid_wait))
  ELSE S

\* _try_fill_download_from_waitlist: popleft() while a slot is free.
RECURSIVE _try_fill_download_from_waitlist(_)
_try_fill_download_from_waitlist(S) ==
  IF HasDownloadSpace(S.download_busy) /\ S.download_wait # <<>>
  THEN LET pid_wait == Head(S.download_wait)
           S1 == [S EXCEPT !.download_wait = Tail(@)]
       IN IF S1.patients[pid_wait].download_start
          THEN _try_fill_download_from_waitlist(S1)
          ELSE _try_fill_download_from_waitlist(_place_into_download(S1, pid_wait))
  ELSE S

\* ------------------------------------------------------- acute dispatcher
EffectiveAcuity(p) == p.acuity + AcuityBonusTenths * p.acuity_bonus

\* Mutation: the capacity of the area is not tested.
HasFreeBedUnchecked(busy, area) == area \in DOMAIN _cap

\* Mutation: the capacity test admits one patient too many.
HasFreeBedOffByOne(busy, area) == area \in DOMAIN _cap /\ busy[area] <= _cap[area]

\* area in self._cap and self._busy[area] < self._cap[area]
HasFreeBed(busy, area) == area \in DOMAIN _cap /\ busy[area] < _cap[area]

\* The candidates of one scan, in queue order.
Candidates(q, pts, busy) ==
  SelectSeq(q, LAMBDA pid : HasFreeBed(busy, pts[pid].area))

\* cand.sort(key=(-effective acuity, arrival)); cand[0].  The sort is stable.
RanksBefore(pts, a, b) ==
  \/ EffectiveAcuity(pts[a]) > EffectiveAcuity(pts[b])
  \/ /\ EffectiveAcuity(pts[a]) = EffectiveAcuity(pts[b])
     /\ pts[a].arrival_time < pts[b].arrival_time

\* Mutation: the dispatcher serves the first candidate in queue order.
HeadCandidate(cand, pts) == cand[1]

\* Mutation: the dispatcher passes over the candidates no doctor can be
\* reserved for and serves the first one that has a doctor.
ServableCandidate(cand, pts) ==
  LET ok == SelectSeq(cand, LAMBDA pid :
              _choose_doctor(_doctors_by_area, pts[pid].area, now) # "none")
  IN IF ok = <<>> THEN cand[1] ELSE ok[1]

TopCandidate(cand, pts) ==
  cand[CHOOSE k \in 1..Len(cand) :
         /\ \A j \in 1..Len(cand) : ~RanksBefore(pts, cand[j], cand[k])
         /\ \A j \in 1..(k - 1) : RanksBefore(pts, cand[k], cand[j])]

\* env.run() is still going: no exception has left a process.
Alive == doctor_table # "raised" /\ exception = "none"

\* self._doctors_by_area is read while it was never assigned: the
\* AttributeError leaves the dispatcher and ends the run.
Raise ==
  /\ doctor_table' = "raised"
  /\ UNCHANGED <<now, patient_id, patients, acute_q, fasttrack_q, _busy,
                 _ft_busy, _download_busy, _download_wait, _unit_busy,
                 _unit_wait, _doctors_by_area, _offload_tokens, scheduler,
                 generators, eventlog, rows, cfg, by_area, workup, _nurse_panels, exception>>

\* What a call of an injected draw function can do: return a number, raise,
\* or return something float() does not accept.
DrawOutcomes == {"number", "raises", "non_numeric"}

\* float(draw()) outside any try: both failures raise out of the call.
FloatRaises(outcome) == outcome # "number"

\* Mutation: the candidate has left the queue by the time it is removed.
DequeueFails(q, pid) == FALSE

\* self.acute_q.remove(pid) does not raise ValueError: pid is in the queue.
Dequeued(q, pid) == InSeq(q, pid)

\* One cycle of _acute_bed_dispatcher, from one timeout to the next.  When
\* the removal fails the booking is rolled back: the panel is released,
\* the signup of the hour stays.
_acute_bed_dispatcher ==
  LET cand == Candidates(acute_q, patients, _busy)
  IN /\ Alive
     /\ IF acute_q = <<>> \/ cand = <<>>
        THEN UNCHANGED vars
        ELSE IF doctor_table = "absent"
        THEN Raise
        ELSE
          LET pid == TopCandidate(cand, patients)
              area == patients[pid].area
              doc == _choose_doctor(_doctors_by_area, area, now)
          IN IF doc = "none"
             THEN UNCHANGED vars
             ELSE IF ~Dequeued(acute_q, pid)
             THEN /\ _doctors_by_area' =
                       _release_doctor_panel(BookDoctor(_doctors_by_area, doc, now), doc)
                  /\ patients' = [patients EXCEPT ![pid].doctor_name = doc]
                  /\ UNCHANGED <<now, patient_id, acute_q, fasttrack_q, _busy,
                                 _ft_busy, _download_busy, _download_wait,
                                 _unit_busy, _unit_wait, _offload_tokens,
                                 scheduler, generators, doctor_table, eventlog,
                                 rows, cfg, exception, by_area, workup, _nurse_panels>>
             ELSE
               LET held == patients[pid].download_start /\ ~patients[pid].download_end
                   S0 == [patients |->
                            [patients EXCEPT ![pid].doctor_name = doc,
                                             ![pid].bed_start = TRUE,
                                             ![pid].treat = "assess",
                                             ![pid].download_end = (@ \/ held)],
                          acute_q |-> Remove(acute_q, pid),
                          download_busy |-> IF held THEN Max(0, _download_busy - 1)
                                            ELSE _download_busy,
                          download_wait |-> _download_wait,
                          log |-> eventlog \cup {Event("bed_start", pid, area)},
                          rows |-> add(rows, now, Event("bed_start", pid, area))]
                   S1 == IF held THEN _try_fill_download_from_waitlist(S0) ELSE S0
               IN /\ _doctors_by_area' = BookDoctor(_doctors_by_area, doc, now)
                  /\ _busy' = [_busy EXCEPT ![area] = @ + 1]
                  /\ patients' = S1.patients
                  /\ acute_q' = S1.acute_q
                  /\ _download_busy' = S1.download_busy
                  /\ _download_wait' = S1.download_wait
                  /\ eventlog' = S1.log
                  /\ rows' = S1.rows
                  /\ UNCHANGED <<now, patient_id, fasttrack_q, _ft_busy,
                                 _unit_busy, _unit_wait, _offload_tokens,
                                 scheduler, generators, doctor_table, cfg, by_area, workup, _nurse_panels,
                                 exception>>

\* ---------------------------------------------------- fast-track dispatcher
\* Mutation: the dispatcher takes the patient at the tail of the queue.
PopRight(q) == [pid |-> q[Len(q)], rest |-> SubSeq(q, 1, Len(q) - 1)]

\* self.fasttrack_q.popleft(): the patient taken and the queue left.
popleft(q) == [pid |-> Head(q), rest |-> Tail(q)]

\* The inner while loop of _fasttrack_bed_dispatcher up to its next yield.
\* Without a doctor the patient goes back to the head (appendleft) and the
\* loop yields.
RECURSIVE FastTrackPlace(_)
FastTrackPlace(S) ==
  IF S.fasttrack_q # <<>> /\ S.ft_busy < _ft_cap
  THEN LET pid == popleft(S.fasttrack_q).pid
           doc == _choose_doctor(S.doctors, _ft_name, now)
       IN IF doc = "none"
          THEN S
          ELSE FastTrackPlace(
                 [S EXCEPT !.fasttrack_q = popleft(@).rest,
                           !.doctors = BookDoctor(@, doc, now),
                           !.ft_busy = @ + 1,
                           !.patients[pid].doctor_name = doc,
                           !.patients[pid].bed_start = TRUE,
                           !.patients[pid].treat = "assess",
                           !.log = @ \cup {Event("bed_start", pid, _ft_name)},
                !.rows = add(@, now, Event("bed_start", pid, _ft_name))])
  ELSE S

_fasttrack_bed_dispatcher ==
  LET S == FastTrackPlace([fasttrack_q |-> fasttrack_q, doctors |-> _doctors_by_area,
                           ft_busy |-> _ft_busy, patients |-> patients,
                           log |-> eventlog, rows |-> rows])
  IN /\ Alive
     /\ IF fasttrack_q # <<>> /\ _ft_busy < _ft_cap /\ doctor_table = "absent"
        THEN Raise
        ELSE
          /\ fasttrack_q' = S.fasttrack_q
          /\ _doctors_by_area' = S.doctors
          /\ _ft_busy' = S.ft_busy
          /\ patients' = S.patients
          /\ eventlog' = S.log
          /\ rows' = S.rows
          /\ UNCHANGED <<now, patient_id, acute_q, _busy, _download_busy,
                         _download_wait, _unit_busy, _unit_wait,
                         _offload_tokens, scheduler, generators, doctor_table,
                         cfg, by_area, workup, _nurse_panels, exception>>

\* ------------------------------------------------------ patient generation
\* _assign_touches: the three branches of the draw r, named by the number
\* of touches each one logs as chosen.
_assign_touches(p, chosen) ==
  IF chosen = 1
  THEN [p EXCEPT !.one_touch = 1, !.two_touch = 0, !.three_touch = 0]
  ELSE IF chosen = 3
  THEN [p EXCEPT !.one_touch = 0, !.two_touch = 0, !.three_touch = 1]
  ELSE [p EXCEPT !.one_touch = 0, !.two_touch = 1, !.three_touch = 0]

\* _orders_on_arrival, the labs and imaging flags: random.random() < prob
\* holds for every draw when the probability is 1 and for none when it is 0.
_orders_on_arrival(p) ==
  [p EXCEPT !.requires_di = IF cfg.di_prob = 1 THEN 1 ELSE 0]

\* p.requires_lab as _orders_on_arrival has set it: the same for every
\* patient of a run, the probability being 0 or 1.
requires_lab(p) == IF cfg.lab_prob = 1 THEN 1 ELSE 0

\* Mutation: a three-touch walk-in keeps its fast-track routing.
ForceAcuteNever(p, is_fast) == FALSE

\* getattr(p, "three_touch", 0) == 1 and is_fast
ForceAcute(p, is_fast) == three_touch(p) = 1 /\ is_fast

\* _make_patient at time t, with Patient.__init__, _assign_touches and the
\* enqueue.  The draws (routing, touches, acuity, EMS flags) are the inputs.
_make_patient(t, is_ems, is_fast, area_name, touch, acuity, ems_direct, is_critical) ==
  LET pid == patient_id + 1
      arrival == t
      touched == _orders_on_arrival(_assign_touches(NoPatient, touch))
      routed_fast == ~is_ems /\ _ft_enabled /\ is_fast
      fast == routed_fast /\ ~ForceAcute(touched, routed_fast)
      base == [touched EXCEPT !.created = TRUE, !.is_ems = is_ems,
                              !.acuity = acuity, !.arrival_time = arrival]
  IN /\ Alive
     /\ patient_id < cfg.arrivals
     /\ \E lwbs_draw \in DrawOutcomes :
          IF FloatRaises(lwbs_draw)
          THEN /\ exception' = "lwbs_threshold_draw"
               /\ UNCHANGED <<patient_id, patients, acute_q, fasttrack_q,
                              eventlog, rows>>
          ELSE /\ patient_id' = pid
               /\ IF is_ems
                  THEN /\ patients' = [patients EXCEPT ![pid] =
                             [base EXCEPT !.area = area_name,
                                          !.ems_direct = ems_direct,
                                          !.is_critical = is_critical,
                                          !.offload = "start"]]
                       /\ UNCHANGED <<acute_q, fasttrack_q>>
                  ELSE /\ patients' = [patients EXCEPT ![pid] =
                             [base EXCEPT !.area = IF fast THEN _ft_name
                                                   ELSE area_name,
                                          !.watch = "armed"]]
                       /\ IF fast
                          THEN /\ fasttrack_q' = Append(fasttrack_q, pid)
                               /\ UNCHANGED acute_q
                          ELSE /\ acute_q' = Append(acute_q, pid)
                               /\ UNCHANGED fasttrack_q
               /\ LET override == Event("route_override", pid, area_name)
                      enqueue == Event("enqueue", pid,
                                       IF fast THEN "FAST" ELSE "ACUTE")
                      overridden == ForceAcute(touched, routed_fast)
                      rows1 == IF overridden THEN add(rows, t, override)
                               ELSE rows
                  IN /\ eventlog' = eventlog
                          \cup (IF overridden THEN {override} ELSE {})
                          \cup (IF is_ems THEN {} ELSE {enqueue})
                     /\ rows' = IF is_ems THEN rows1
                                ELSE add(rows1, t, enqueue)
               /\ UNCHANGED exception
     /\ UNCHANGED <<_busy, _ft_busy, _download_busy, _download_wait,
                    _unit_busy, _unit_wait, _doctors_by_area, _offload_tokens,
                    scheduler, doctor_table, cfg, by_area, workup, _nurse_panels>>

\* ------------------------------------------------------------------- LWBS
\* Mutation: the timer marks the patient without re-checking placement or
\* whether the removal from the queue succeeded.
LwbsRemovedUnchecked(p, q, pid) == TRUE

\* The two early returns and the try/except around queue.remove.
LwbsRemoved(p, q, pid) ==
  LET skip == p.bed_start \/ (p.is_ems /\ p.download_start /\ ~p.download_end)
  IN ~skip /\ InSeq(q, pid)

\* _lwbs_watch after its timeout: the patient leaves if it is still queued.
_lwbs_watch(pid) ==
  LET p == patients[pid]
      is_fast == p.area = _ft_name
      q == IF is_fast THEN fasttrack_q ELSE acute_q
      removed == LwbsRemoved(p, q, pid)
  IN /\ Alive
     /\ p.watch = "armed"
     /\ patients' = [patients EXCEPT
                       ![pid].watch = "done",
                       ![pid].lwbs = IF removed THEN 1 ELSE @,
                       ![pid].disposition_time = IF removed THEN now ELSE @,
                       ![pid].los_minutes =
                         IF removed THEN LosMinutes(now, p.arrival_time) ELSE @]
     /\ fasttrack_q' = IF removed /\ is_fast THEN Remove(fasttrack_q, pid)
                       ELSE fasttrack_q
     /\ acute_q' = IF removed /\ ~is_fast THEN Remove(acute_q, pid) ELSE acute_q
     /\ eventlog' = IF removed THEN eventlog \cup {Event("lwbs", pid, p.area)}
                    ELSE eventlog
     /\ rows' = IF removed THEN add(rows, now, Event("lwbs", pid, p.area))
                ELSE rows
     /\ UNCHANGED <<now, patient_id, _busy, _ft_busy, _download_busy,
                    _download_wait, _unit_busy, _unit_wait, _doctors_by_area,
                    _offload_tokens, scheduler, generators, doctor_table, cfg, by_area, workup, _nurse_panels,
                    exception>>

\* ------------------------------------------------------------ EMS offload
\* Mutation: the put returns no token to the container.
ContainerPutNothing(tokens, pts, n) == [tokens |-> tokens, patients |-> pts]

\* Container.put(n): raise the level, then serve the queued getters in order.
RECURSIVE ServeGetters(_)
ServeGetters(S) ==
  IF S.tokens.get_queue # <<>> /\ S.tokens.level >= 1
  THEN ServeGetters([S EXCEPT !.tokens.level = @ - 1,
                              !.tokens.get_queue = Tail(@),
                              !.patients[Head(S.tokens.get_queue)].offload = "service"])
  ELSE S

ContainerPut(tokens, pts, n) ==
  ServeGetters([tokens |-> [tokens EXCEPT !.level = @ + n], patients |-> pts])

\* _ems_offload, first step: yield self._offload_tokens.get(1).
EmsOffloadGet(pid) ==
  /\ Alive
  /\ patients[pid].offload = "start"
  /\ IF _offload_tokens.level >= 1 /\ _offload_tokens.get_queue = <<>>
     THEN /\ _offload_tokens' = [_offload_tokens EXCEPT !.level = @ - 1]
          /\ patients' = [patients EXCEPT ![pid].offload = "service"]
     ELSE /\ _offload_tokens' = [_offload_tokens EXCEPT !.get_queue = Append(@, pid)]
          /\ patients' = [patients EXCEPT ![pid].offload = "wait"]
  /\ UNCHANGED <<now, patient_id, acute_q, fasttrack_q, _busy, _ft_busy,
                 _download_busy, _download_wait, _unit_busy, _unit_wait,
                 _doctors_by_area, scheduler, generators, doctor_table,
                 eventlog, rows, cfg, by_area, workup, _nurse_panels, exception>>

\* _ems_offload after the service timeout: offload_end, then put(1).
EmsOffloadEnd(pid) ==
  /\ Alive
  /\ patients[pid].offload = "service"
  /\ LET S == ContainerPut(_offload_tokens,
                           [patients EXCEPT ![pid].offload_end = TRUE,
                                            ![pid].offload = "released"], 1)
     IN /\ _offload_tokens' = S.tokens
        /\ patients' = S.patients
  /\ UNCHANGED <<now, patient_id, acute_q, fasttrack_q, _busy, _ft_busy,
                 _download_busy, _download_wait, _unit_busy, _unit_wait,
                 _doctors_by_area, scheduler, generators, doctor_table,
                 eventlog, rows, cfg, by_area, workup, _nurse_panels, exception>>

\* float(self.cfg.ems.offload_service_time_draw()): the durations a
\* configured draw returns, a negative one among them.
OffloadDurations == {-1, 5}

\* env.timeout(dur) raises ValueError for a negative delay.
NegativeDelay(dur) == dur < 0

\* _ems_offload resumed with its token, the drawn duration being negative:
\* env.timeout raises inside the try, the finally block puts the token back
\* and the process waits for the put with the exception pending.  The steps
\* other processes take between the acquisition and this one are those of
\* the same instant.
EmsOffloadTimeoutRaises(pid) ==
  /\ Alive
  /\ patients[pid].offload = "service"
  /\ \E dur \in OffloadDurations : NegativeDelay(dur)
  /\ LET S == ContainerPut(_offload_tokens,
                           [patients EXCEPT ![pid].offload = "raising"], 1)
     IN /\ _offload_tokens' = S.tokens
        /\ patients' = S.patients
  /\ UNCHANGED <<now, patient_id, acute_q, fasttrack_q, _busy, _ft_busy,
                 _download_busy, _download_wait, _unit_busy, _unit_wait,
                 _doctors_by_area, scheduler, generators, doctor_table,
                 eventlog, rows, cfg, by_area, workup, _nurse_panels, exception>>

\* The put of the finally block has been served: the ValueError leaves
\* _ems_offload and with it env.run().
EmsOffloadRaised(pid) ==
  /\ Alive
  /\ patients[pid].offload = "raising"
  /\ patients' = [patients EXCEPT ![pid].offload = "failed"]
  /\ exception' = "offload_timeout"
  /\ UNCHANGED <<now, patient_id, acute_q, fasttrack_q, _busy, _ft_busy,
                 _download_busy, _download_wait, _unit_busy, _unit_wait,
                 _doctors_by_area, _offload_tokens, scheduler, generators,
                 doctor_table, eventlog, rows, cfg, by_area, workup, _nurse_panels>>

\* _ems_clear_after_offload, the loop of a critical patient: one poll that
\* finds download_start written.
EmsClearPoll(pid) ==
  /\ Alive
  /\ patients[pid].clear = "wait_download"
  /\ patients[pid].download_start
  /\ patients' = [patients EXCEPT ![pid].clear = "timing"]
  /\ UNCHANGED <<now, patient_id, acute_q, fasttrack_q, _busy, _ft_busy,
                 _download_busy, _download_wait, _unit_busy, _unit_wait,
                 _doctors_by_area, _offload_tokens, scheduler, generators,
                 doctor_table, eventlog, rows, cfg, by_area, workup, _nurse_panels, exception>>

\* _ems_clear_after_offload after the crew's hospital time: ems_clear_time.
EmsClearEnd(pid) ==
  /\ Alive
  /\ patients[pid].clear = "timing"
  /\ patients' = [patients EXCEPT ![pid].clear = "done"]
  /\ UNCHANGED <<now, patient_id, acute_q, fasttrack_q, _busy, _ft_busy,
                 _download_busy, _download_wait, _unit_busy, _unit_wait,
                 _doctors_by_area, _offload_tokens, scheduler, generators,
                 doctor_table, eventlog, rows, cfg, by_area, workup, _nurse_panels, exception>>

\* _ems_offload after the bay is released: download holding, its waitlist,
\* or the acute queue with an abandonment timer; the crew-clear process is
\* started on every branch.
EmsOffloadRoute(pid) ==
  LET p == patients[pid]
      wants_download == p.ems_direct \/ p.is_critical
      S0 == [patients |-> [patients EXCEPT ![pid].offload = "done"],
             acute_q |-> acute_q, download_busy |-> _download_busy,
             download_wait |-> _download_wait, log |-> eventlog,
             rows |-> rows]
      S1 == IF wants_download /\ HasDownloadSpace(_download_busy)
            THEN _place_into_download(S0, pid)
            ELSE IF wants_download /\ p.is_critical
            THEN [S0 EXCEPT !.download_wait = Append(@, pid),
                            !.log = @ \cup {Event("download_wait", pid, "ACUTE")},
                            !.rows = add(@, now, Event("download_wait", pid, "ACUTE"))]
            ELSE [S0 EXCEPT !.acute_q = Append(@, pid),
                            !.log = @ \cup {Event("enqueue", pid, "ACUTE")},
                            !.rows = add(@, now, Event("enqueue", pid, "ACUTE")),
                            !.patients[pid].watch = "armed"]
  IN /\ Alive
     /\ p.offload = "released"
     /\ patients' = [S1.patients EXCEPT ![pid].clear =
                       IF p.is_critical /\ ~S1.patients[pid].download_start
                       THEN "wait_download" ELSE "timing"]
     /\ acute_q' = S1.acute_q
     /\ _download_busy' = S1.download_busy
     /\ _download_wait' = S1.download_wait
     /\ eventlog' = S1.log
     /\ rows' = S1.rows
     /\ UNCHANGED <<now, patient_id, fasttrack_q, _busy, _ft_busy, _unit_busy,
                    _unit_wait, _doctors_by_area, _offload_tokens, scheduler,
                    generators, doctor_table, cfg, by_area, workup, _nurse_panels, exception>>

\* The clock reaches the next hour boundary; the staff scheduler is due.
Tick ==
  /\ now < MaxHour * HourMinutes
  /\ scheduler = "sleep"
  /\ now' = now + HourMinutes
  /\ scheduler' = "due"
  /\ UNCHANGED <<patient_id, patients, acute_q, fasttrack_q, _busy, _ft_busy,
                 _download_busy, _download_wait, _unit_busy, _unit_wait,
                 _doctors_by_area, _offload_tokens, generators, doctor_table,
                 eventlog, rows, cfg, by_area, workup, _nurse_panels, exception>>

_offload_staff_for_hour(hour_idx) == offload_nurses_per_hour[hour_idx % 24]

\* One iteration of _offload_staff_scheduler: the delta between the target
\* and the current level is put into or taken out of the container.
_offload_staff_scheduler ==
  LET target == _offload_staff_for_hour(_abs_hour(now))
      current == _offload_tokens.level
      delta == target - current
      S == IF delta > 0 THEN ContainerPut(_offload_tokens, patients, delta)
           ELSE [tokens |-> [_offload_tokens EXCEPT !.level = @ + delta],
                 patients |-> patients]
  IN /\ scheduler = "due"
     /\ scheduler' = "sleep"
     /\ _offload_tokens' = S.tokens
     /\ patients' = S.patients
     /\ UNCHANGED <<now, patient_id, acute_q, fasttrack_q, _busy, _ft_busy,
                    _download_busy, _download_wait, _unit_busy, _unit_wait,
                    _doctors_by_area, generators, doctor_table, eventlog, rows, cfg, by_area, workup, _nurse_panels,
                    exception>>

\* ------------------------------------------------------- inpatient flow
\* Mutation: the transfer leaves the ED bed counted as occupied.
EdBedNotFreed(S, pid) == S

\* _free_ed_bed_on_transfer: the fast-track or the acute counter.
_free_ed_bed_on_transfer(S, pid) ==
  LET area == S.patients[pid].area
  IN IF area = _ft_name
     THEN [S EXCEPT !.ft_busy = Max(0, @ - 1)]
     ELSE IF area \in DOMAIN S.busy
     THEN [S EXCEPT !.busy[area] = Max(0, @ - 1)]
     ELSE S

\* Mutation: a unit admits one patient too many.
UnitHasBedOffByOne(unit_busy, unit_name) ==
  unit_busy[unit_name] <= _unit_cap[unit_name]

\* self._unit_busy[unit_name] < self._unit_cap[unit_name]
UnitHasBed(unit_busy, unit_name) ==
  unit_busy[unit_name] < _unit_cap[unit_name]

\* _start_inpatient_stay: transfer out of the ED and start the unit stay.
_start_inpatient_stay(S, pid, unit_name) ==
  LET S1 == _free_ed_bed_on_transfer(
              [S EXCEPT !.patients[pid].inpatient_start = TRUE], pid)
  IN [S1 EXCEPT !.unit_busy[unit_name] = @ + 1,
                !.patients[pid].stay = "stay",
                !.log = @ \cup {Event("admit_transfer", pid, unit_name)},
                !.rows = add(@, now, Event("admit_transfer", pid, unit_name))]

\* _admit_request: unknown unit, immediate transfer, or the unit's waitlist.
_admit_request(S, pid, service_name) ==
  LET unit_name == service_to_unit(service_name)
  IN IF unit_name \notin DOMAIN _unit_cap
     THEN [S EXCEPT !.log = @ \cup {Event("admit_failed_no_unit", pid, unit_name)},
                !.rows = add(@, now, Event("admit_failed_no_unit", pid, unit_name))]
     ELSE LET S1 == [S EXCEPT !.patients[pid].admit = 1,
                              !.patients[pid].admit_unit = unit_name,
                              !.log = @ \cup {Event("admit_decision", pid, unit_name)},
                !.rows = add(@, now, Event("admit_decision", pid, unit_name))]
          IN IF UnitHasBed(S1.unit_busy, unit_name)
             THEN _start_inpatient_stay(S1, pid, unit_name)
             ELSE [S1 EXCEPT !.patients[pid].admit_event = "pending",
                             !.unit_wait[unit_name] = Append(@, pid),
                             !.log = @ \cup {Event("admit_waitlist_enqueue", pid, unit_name)},
                !.rows = add(@, now, Event("admit_waitlist_enqueue", pid, unit_name))]

\* Mutation: the backfill takes the patient who asked last.
RECURSIVE PlaceNewestFromWaitlist(_, _)
PlaceNewestFromWaitlist(S, unit_name) ==
  IF S.unit_wait[unit_name] # <<>> /\ UnitHasBed(S.unit_busy, unit_name)
  THEN LET q == S.unit_wait[unit_name]
           pid == q[Len(q)]
           S1 == [S EXCEPT !.unit_wait[unit_name] = SubSeq(q, 1, Len(q) - 1)]
       IN IF S1.patients[pid].inpatient_start
          THEN PlaceNewestFromWaitlist(S1, unit_name)
          ELSE PlaceNewestFromWaitlist(
                 _start_inpatient_stay(S1, pid, unit_name), unit_name)
  ELSE S

\* _try_place_inpatient_from_waitlist: q.popleft() while the unit has a bed.
RECURSIVE _try_place_inpatient_from_waitlist(_, _)
_try_place_inpatient_from_waitlist(S, unit_name) ==
  IF S.unit_wait[unit_name] # <<>> /\ UnitHasBed(S.unit_busy, unit_name)
  THEN LET pid == Head(S.unit_wait[unit_name])
           S1 == [S EXCEPT !.unit_wait[unit_name] = Tail(@)]
       IN IF S1.patients[pid].inpatient_start
          THEN _try_place_inpatient_from_waitlist(S1, unit_name)
          ELSE _try_place_inpatient_from_waitlist(
                 _start_inpatient_stay(S1, pid, unit_name), unit_name)
  ELSE S

\* The part of the state the inpatient flow works on.
InpatientState ==
  [patients |-> patients, busy |-> _busy, ft_busy |-> _ft_busy,
   unit_busy |-> _unit_busy, unit_wait |-> _unit_wait, log |-> eventlog, rows |-> rows]

\* _inpatient_proc after the length of stay: free the unit bed and backfill.
_inpatient_proc(pid) ==
  LET unit_name == patients[pid].admit_unit
      S == _try_place_inpatient_from_waitlist(
             [InpatientState EXCEPT
                !.patients[pid].inpatient_end = TRUE,
                !.patients[pid].stay = "done",
                !.unit_busy[unit_name] = Max(0, @ - 1),
                !.log = @ \cup {Event("inpatient_discharge", pid, unit_name)},
                !.rows = add(@, now, Event("inpatient_discharge", pid, unit_name))],
             unit_name)
  IN /\ Alive
     /\ patients[pid].stay = "stay"
     /\ patients' = S.patients
     /\ _busy' = S.busy
     /\ _ft_busy' = S.ft_busy
     /\ _unit_busy' = S.unit_busy
     /\ _unit_wait' = S.unit_wait
     /\ eventlog' = S.log
     /\ rows' = S.rows
     /\ UNCHANGED <<now, patient_id, acute_q, fasttrack_q, _download_busy,
                    _download_wait, _doctors_by_area, _offload_tokens,
                    scheduler, generators, doctor_table, cfg, by_area, workup, _nurse_panels, exception>>

\* ------------------------------------------------------------- orders
\* _run_di: nothing to do without the flag, else di_start is written and
\* the imaging runs.
_run_di(p) == IF p.requires_di = 1 THEN [p EXCEPT !.di_start = TRUE] ELSE p

\* ------------------------------------------------------------- nursing
\* _init_nurses: the mode of an area.
_nurse_mode(area) ==
  LET nm == cfg.nurse_model
  IN IF nm.model = "team"
     THEN IF nm.team_nurses <= 0 THEN "off" ELSE "team"
     ELSE IF nm.model = "ratio" THEN "ratio" ELSE "off"

\* The Resources of an area: panels = max(1, beds // max(1, ratio)) of
\* capacity 1 in ratio mode, one pool of capacity team_nurses in team mode.
NursePanelCount(area) ==
  IF _nurse_mode(area) = "ratio"
  THEN Max(1, cfg.beds[area] \div Max(1, cfg.nurse_model.ratio))
  ELSE IF _nurse_mode(area) = "team" THEN 1 ELSE 0

NurseCapacity(area) ==
  IF _nurse_mode(area) = "team" THEN cfg.nurse_model.team_nurses ELSE 1

_init_nurses ==
  [a \in AcuteAreas |->
     [i \in 0..(NursePanelCount(a) - 1) |-> [users |-> {}, queue |-> <<>>]]]

\* _get_nurse_req: the Resource asked, the pool in team mode and the panel
\* p.id % len(panels) in ratio mode; None when the area has no nurse model.
_get_nurse_req(pid, area) ==
  IF _nurse_mode(area) = "team" THEN 0
  ELSE IF _nurse_mode(area) = "ratio" THEN pid % NursePanelCount(area)
  ELSE None

\* A Resource serves the head of its queue while a slot is free.
TriggerPut(res, capacity) ==
  IF res.queue # <<>> /\ Cardinality(res.users) < capacity
  THEN [users |-> res.users \cup {Head(res.queue)}, queue |-> Tail(res.queue)]
  ELSE res

\* Mutation: a request is granted whatever the number of users.
ResourceRequestUnbounded(res, pid, capacity) ==
  [res EXCEPT !.users = @ \cup {pid}]

\* panels[idx].request() / pool.request()
ResourceRequest(res, pid, capacity) ==
  TriggerPut([res EXCEPT !.queue = Append(@, pid)], capacity)

\* Leaving the with block: the unit goes to the next request in line.
ResourceRelease(res, pid, capacity) ==
  TriggerPut([res EXCEPT !.users = @ \ {pid}], capacity)

\* nurse_req = self._get_nurse_req(p, area), entering "with nurse_req".
RequestNurse(nurses, pid, area) ==
  LET idx == _get_nurse_req(pid, area)
  IN IF idx = None THEN nurses
     ELSE [nurses EXCEPT ![area][idx] = ResourceRequest(@, pid, NurseCapacity(area))]

\* Mutation: the with block is left without the unit being given back.
NurseKept(nurses, pid, area) == nurses

ReleaseNurse(nurses, pid, area) ==
  LET idx == _get_nurse_req(pid, area)
  IN [nurses EXCEPT ![area][idx] = ResourceRelease(@, pid, NurseCapacity(area))]

\* The request of the patient has been granted.
NurseGranted(nurses, pid, area) ==
  pid \in nurses[area][_get_nurse_req(pid, area)].users

\* The stage after the assessment and the consults: the wait for the nurse
\* unit, or, in an area without a nurse model, the labs.
NursingStage(pid, area) ==
  IF _get_nurse_req(pid, area) = None THEN "nurse_labs" ELSE "nurse_wait"

\* ------------------------------------------------------ acute treatment
\* spec.consult_time_draw of the chosen service: a callable with one of the
\* outcomes of a draw, or not a callable at all.
ConsultDrawOutcomes == DrawOutcomes \cup {"not_callable"}

\* c_min = float(c_draw()) if callable(c_draw) else 60.0
ConsultDrawRaises(outcome) == outcome # "not_callable" /\ FloatRaises(outcome)

\* _treat_acute_with_assigned_doctor after the assessment: the consult draw.
AcuteAssessEnd(pid, want_consult) ==
  LET p == patients[pid]
      consults == p.area # _ft_name /\ (two_touch(p) = 1 \/ three_touch(p) = 1)
  IN /\ Alive
     /\ p.treat = "assess"
     /\ p.area # _ft_name
     /\ \E c_draw \in ConsultDrawOutcomes :
          IF consults /\ want_consult /\ ConsultDrawRaises(c_draw)
          THEN /\ exception' = "consult_time_draw"
               /\ UNCHANGED <<patients, _nurse_panels>>
          ELSE /\ patients' = [patients EXCEPT ![pid].treat =
                    IF consults /\ want_consult THEN "consult1"
                    ELSE NursingStage(pid, p.area)]
               /\ _nurse_panels' =
                    IF consults /\ want_consult THEN _nurse_panels
                    ELSE RequestNurse(_nurse_panels, pid, p.area)
               /\ UNCHANGED exception
     /\ UNCHANGED <<now, patient_id, acute_q, fasttrack_q, _busy, _ft_busy,
                    _download_busy, _download_wait, _unit_busy, _unit_wait,
                    _doctors_by_area, _offload_tokens, scheduler, generators,
                    doctor_table, eventlog, rows, cfg, by_area, workup>>

\* Mutation: the return after the admission branch is missing, so the
\* treatment goes on to nursing and discharge.
AfterAdmitNoReturn(blocked) == IF blocked THEN "board" ELSE "nurse_labs"

\* After _admit_request: wait on p._admit_event if there is one, else
\* release the doctor and return.
AfterAdmit(blocked) == IF blocked THEN "board" ELSE "done"

\* After a consult: admit (request a unit bed, board if waitlisted, else
\* release the doctor and return) or go on to the next consult, which draws
\* its duration first, or to the next stage.
AcuteConsultEnd(pid, service, admitted) ==
  LET p == patients[pid]
      S == _admit_request([InpatientState EXCEPT !.patients[pid].consult_admit = 1],
                          pid, service)
      blocked == S.patients[pid].admit_event # "none"
  IN /\ Alive
     /\ p.treat \in {"consult1", "consult2"}
     /\ IF admitted
        THEN /\ patients' = [S.patients EXCEPT ![pid].treat = AfterAdmit(blocked)]
             /\ _busy' = S.busy
             /\ _ft_busy' = S.ft_busy
             /\ _unit_busy' = S.unit_busy
             /\ _unit_wait' = S.unit_wait
             /\ eventlog' = S.log \cup {Event("admit_requested", pid, service)}
                              \cup (IF blocked THEN {}
                                    ELSE {Event("doctor_panel_release", pid, p.area)})
             /\ rows' =
                  LET requested == add(S.rows, now,
                                       Event("admit_requested", pid, service))
                  IN IF blocked THEN requested
                     ELSE add(requested, now,
                              Event("doctor_panel_release", pid, p.area))
             /\ _doctors_by_area' =
                  IF blocked THEN _doctors_by_area
                  ELSE _release_doctor_panel(_doctors_by_area, p.doctor_name)
             /\ UNCHANGED <<exception, _nurse_panels>>
        ELSE /\ \E c_draw \in ConsultDrawOutcomes :
                  IF p.treat = "consult1" /\ ConsultDrawRaises(c_draw)
                  THEN /\ exception' = "consult_time_draw"
                       /\ UNCHANGED <<patients, _nurse_panels>>
                  ELSE /\ patients' = [patients EXCEPT ![pid].treat =
                            IF p.treat = "consult1" THEN "consult2"
                            ELSE NursingStage(pid, p.area)]
                       /\ _nurse_panels' =
                            IF p.treat = "consult1" THEN _nurse_panels
                            ELSE RequestNurse(_nurse_panels, pid, p.area)
                       /\ UNCHANGED exception
             /\ UNCHANGED <<_busy, _ft_busy, _unit_busy, _unit_wait, eventlog, rows,
                            _doctors_by_area>>
     /\ UNCHANGED <<now, patient_id, acute_q, fasttrack_q, _download_busy,
                    _download_wait, _offload_tokens, scheduler, generators,
                    doctor_table, cfg, by_area, workup>>

\* Discharge + free resources (acute): bed_end, disposition, bed, doctor.
AcuteDischarge(pid) ==
  LET p == patients[pid]
  IN /\ patients' = [patients EXCEPT ![pid].bed_end = TRUE,
                                     ![pid].disposition_time = now,
                                     ![pid].los_minutes =
                                       LosMinutes(now, p.arrival_time),
                                     ![pid].treat = "done"]
     /\ _busy' = [_busy EXCEPT ![p.area] = Max(0, @ - 1)]
     /\ _doctors_by_area' = _release_doctor_panel(_doctors_by_area, p.doctor_name)
     /\ eventlog' = eventlog \cup {Event("bed_end", pid, p.area),
                                   Event("discharge", pid, p.area),
                                   Event("doctor_panel_release", pid, p.area)}
     /\ rows' = add(add(add(rows, now, Event("bed_end", pid, p.area)),
                        now, Event("discharge", pid, p.area)),
                    now, Event("doctor_panel_release", pid, p.area))
     /\ UNCHANGED <<now, patient_id, acute_q, fasttrack_q, _ft_busy,
                    _download_busy, _download_wait, _unit_busy, _unit_wait,
                    _offload_tokens, scheduler, generators, doctor_table, cfg, by_area, workup, _nurse_panels,
                    exception>>

\* After nursing and labs: a 1-touch patient is discharged, the others go on
\* to imaging if it was ordered, reassessment and core treatment.
AcuteNurseLabsEnd(pid) ==
  /\ Alive
  /\ patients[pid].treat = "nurse_labs"
  /\ IF one_touch(patients[pid]) = 1
     THEN AcuteDischarge(pid)
     ELSE /\ patients' = [patients EXCEPT ![pid] =
                              [_run_di(@) EXCEPT !.treat = "reassess_treat"]]
          /\ UNCHANGED <<now, patient_id, acute_q, fasttrack_q, _busy,
                         _ft_busy, _download_busy, _download_wait, _unit_busy,
                         _unit_wait, _doctors_by_area, _offload_tokens,
                         scheduler, generators, doctor_table, eventlog, rows, cfg, by_area, workup, _nurse_panels,
                         exception>>

\* After the core treatment timeout.
AcuteTreatEnd(pid) ==
  /\ Alive
  /\ patients[pid].treat = "reassess_treat"
  /\ AcuteDischarge(pid)

\* ------------------------------------- nursing with a nurse unit, imaging
\* The patient record at discharge: bed_end, disposition_time, los_minutes.
DischargeRecord(p, t) ==
  [p EXCEPT !.bed_end = TRUE, !.disposition_time = t,
            !.los_minutes = LosMinutes(t, p.arrival_time), !.treat = "done"]

\* The rows a discharge appends, in order.
DischargeRows(rs, t, pid, area) ==
  add(add(add(rs, t, Event("bed_end", pid, area)),
          t, Event("discharge", pid, area)),
      t, Event("doctor_panel_release", pid, area))

\* Inside "with nurse_req as nr", after "yield nr": nurse_assess_start, and
\* the labs process is started if labs were ordered.
AcuteNurseStart(pid) ==
  LET p == patients[pid]
      labs == requires_lab(p) = 1
      rows1 == add(rows, now, Event("nurse_assess_start", pid, p.area))
  IN /\ Alive
     /\ p.treat = "nurse_wait"
     /\ NurseGranted(_nurse_panels, pid, p.area)
     /\ patients' = [patients EXCEPT ![pid].treat = "nursing"]
     /\ workup' = Stamped(workup, pid,
                          {"nurse_assess_start"}
                            \cup (IF labs THEN {"lab_start"} ELSE {}))
     /\ eventlog' = eventlog \cup {Event("nurse_assess_start", pid, p.area)}
                      \cup (IF labs THEN {Event("lab_start", pid, p.area)} ELSE {})
     /\ rows' = IF labs THEN add(rows1, now, Event("lab_start", pid, p.area))
                ELSE rows1
     /\ UNCHANGED <<now, patient_id, acute_q, fasttrack_q, _busy, _ft_busy,
                    _download_busy, _download_wait, _unit_busy, _unit_wait,
                    _doctors_by_area, _offload_tokens, scheduler, generators,
                    doctor_table, cfg, exception, by_area, _nurse_panels>>

\* _run_labs after its timeout, while the patient is with the nurse.
AcuteLabsEnd(pid) ==
  LET p == patients[pid]
  IN /\ Alive
     /\ p.treat = "nursing"
     /\ Did(pid, "lab_start") /\ ~Did(pid, "lab_end")
     /\ workup' = Stamped(workup, pid, {"lab_end"})
     /\ UNCHANGED patients
     /\ eventlog' = eventlog \cup {Event("lab_end", pid, p.area)}
     /\ rows' = add(rows, now, Event("lab_end", pid, p.area))
     /\ UNCHANGED <<now, patient_id, acute_q, fasttrack_q, _busy, _ft_busy,
                    _download_busy, _download_wait, _unit_busy, _unit_wait,
                    _doctors_by_area, _offload_tokens, scheduler, generators,
                    doctor_table, cfg, exception, by_area, _nurse_panels>>

\* Mutation: the nursing stage ends with the nursing timeout, whether or
\* not the labs have ended.
NursingJoinedTimeoutOnly(pid) == TRUE

\* The event the nursing stage waits for: the nursing timeout alone, or
\* AllOf the timeout and the labs process.
NursingJoined(pid) == Did(pid, "lab_start") => Did(pid, "lab_end")

\* The end of the nursing stage: nurse_assess_end, the nurse unit is given
\* back on leaving the with block, then a 1-touch patient is discharged and
\* the others start the imaging ordered for them, or the reassessment.
AcuteNursingEnd(pid) ==
  LET p == patients[pid]
      nurse_end == Event("nurse_assess_end", pid, p.area)
      rows1 == add(rows, now, nurse_end)
  IN /\ Alive
     /\ p.treat = "nursing"
     /\ NursingJoined(pid)
     /\ _nurse_panels' = ReleaseNurse(_nurse_panels, pid, p.area)
     /\ IF one_touch(p) = 1
        THEN /\ patients' = [patients EXCEPT ![pid] = DischargeRecord(p, now)]
             /\ workup' = Stamped(workup, pid, {"nurse_assess_end"})
             /\ _busy' = [_busy EXCEPT ![p.area] = Max(0, @ - 1)]
             /\ _doctors_by_area' =
                  _release_doctor_panel(_doctors_by_area, p.doctor_name)
             /\ eventlog' = eventlog \cup {nurse_end,
                                           Event("bed_end", pid, p.area),
                                           Event("discharge", pid, p.area),
                                           Event("doctor_panel_release", pid, p.area)}
             /\ rows' = DischargeRows(rows1, now, pid, p.area)
        ELSE /\ IF p.requires_di = 1
                THEN /\ patients' = [patients EXCEPT ![pid].di_start = TRUE,
                                                     ![pid].treat = "di"]
                     /\ workup' = Stamped(workup, pid, {"nurse_assess_end"})
                     /\ eventlog' = eventlog \cup {nurse_end,
                                                   Event("di_start", pid, p.area)}
                     /\ rows' = add(rows1, now, Event("di_start", pid, p.area))
                ELSE /\ patients' = [patients EXCEPT ![pid].treat = "reassess_treat"]
                     /\ workup' = Stamped(workup, pid, {"nurse_assess_end",
                                                        "reassess_start"})
                     /\ eventlog' = eventlog \cup {nurse_end,
                                                   Event("reassess_start", pid, p.area)}
                     /\ rows' = add(rows1, now, Event("reassess_start", pid, p.area))
             /\ UNCHANGED <<_busy, _doctors_by_area>>
     /\ UNCHANGED <<now, patient_id, acute_q, fasttrack_q, _ft_busy,
                    _download_busy, _download_wait, _unit_busy, _unit_wait,
                    _offload_tokens, scheduler, generators, doctor_table, cfg,
                    exception, by_area>>

\* _run_di after its timeout: di_end, then the first reassessment starts.
AcuteDiEnd(pid) ==
  LET p == patients[pid]
  IN /\ Alive
     /\ p.treat = "di"
     /\ patients' = [patients EXCEPT ![pid].treat = "reassess_treat"]
     /\ workup' = Stamped(workup, pid, {"di_end", "reassess_start"})
     /\ eventlog' = eventlog \cup {Event("di_end", pid, p.area),
                                   Event("reassess_start", pid, p.area)}
     /\ rows' = add(add(rows, now, Event("di_end", pid, p.area)),
                    now, Event("reassess_start", pid, p.area))
     /\ UNCHANGED <<now, patient_id, acute_q, fasttrack_q, _busy, _ft_busy,
                    _download_busy, _download_wait, _unit_busy, _unit_wait,
                    _doctors_by_area, _offload_tokens, scheduler, generators,
                    doctor_table, cfg, exception, by_area, _nurse_panels>>

\* -------------------------------------------------- fast-track treatment
\* _treat_fast_with_assigned_doctor after the assessment: labs and imaging
\* as ordered, then the treatment for a 1-touch patient and the
\* reassessment for the others.
FastAssessEnd(pid) ==
  /\ Alive
  /\ patients[pid].treat = "assess"
  /\ patients[pid].area = _ft_name
  /\ patients' = [patients EXCEPT ![pid] =
                    [_run_di(@) EXCEPT !.treat =
                       IF one_touch(patients[pid]) = 1 THEN "ft_treat"
                       ELSE "ft_reassess"]]
  /\ UNCHANGED <<now, patient_id, acute_q, fasttrack_q, _busy, _ft_busy,
                 _download_busy, _download_wait, _unit_busy, _unit_wait,
                 _doctors_by_area, _offload_tokens, scheduler, generators,
                 doctor_table, eventlog, rows, cfg, by_area, workup, _nurse_panels, exception>>

\* After the reassessment of a patient of more than one touch.
FastReassessEnd(pid) ==
  /\ Alive
  /\ patients[pid].treat = "ft_reassess"
  /\ patients' = [patients EXCEPT ![pid].treat = "ft_treat"]
  /\ UNCHANGED <<now, patient_id, acute_q, fasttrack_q, _busy, _ft_busy,
                 _download_busy, _download_wait, _unit_busy, _unit_wait,
                 _doctors_by_area, _offload_tokens, scheduler, generators,
                 doctor_table, eventlog, rows, cfg, by_area, workup, _nurse_panels, exception>>

\* After the 60-minute treatment: discharge.
FastTreatEnd(pid) ==
  LET p == patients[pid]
  IN /\ Alive
     /\ p.treat = "ft_treat"
     /\ patients' = [patients EXCEPT ![pid].bed_end = TRUE,
                                     ![pid].disposition_time = now,
                                     ![pid].los_minutes =
                                       LosMinutes(now, p.arrival_time),
                                     ![pid].treat = "done"]
     /\ _ft_busy' = Max(0, _ft_busy - 1)
     /\ _doctors_by_area' = _release_doctor_panel(_doctors_by_area, p.doctor_name)
     /\ eventlog' = eventlog \cup {Event("bed_end", pid, p.area),
                                   Event("discharge", pid, p.area),
                                   Event("doctor_panel_release", pid, p.area)}
     /\ rows' = add(add(add(rows, now, Event("bed_end", pid, p.area)),
                        now, Event("discharge", pid, p.area)),
                    now, Event("doctor_panel_release", pid, p.area))
     /\ UNCHANGED <<now, patient_id, acute_q, fasttrack_q, _busy,
                    _download_busy, _download_wait, _unit_busy, _unit_wait,
                    _offload_tokens, scheduler, generators, doctor_table, cfg, by_area, workup, _nurse_panels,
                    exception>>

\* ---------------------------------------- fast track, the orders stage
\* The stage after the orders of a fast-track patient.
FastAfterOrders(p) ==
  IF one_touch(p) = 1 THEN [p EXCEPT !.treat = "ft_treat"]
  ELSE [p EXCEPT !.treat = "ft_reassess"]

\* _treat_fast_with_assigned_doctor after the assessment, the orders as
\* processes of their own: labs and imaging are both started, and the flow
\* waits for AllOf them; with nothing ordered it goes straight on.
FastAssessEndOrders(pid) ==
  LET p == patients[pid]
      labs == requires_lab(p) = 1
      di == p.requires_di = 1
      started == [p EXCEPT !.di_start = di]
      rows1 == IF labs THEN add(rows, now, Event("lab_start", pid, p.area))
               ELSE rows
      rows2 == IF di THEN add(rows1, now, Event("di_start", pid, p.area))
               ELSE rows1
      reassess == ~labs /\ ~di /\ one_touch(p) # 1
  IN /\ Alive
     /\ p.treat = "assess"
     /\ p.area = _ft_name
     /\ patients' = [patients EXCEPT ![pid] =
                       IF labs \/ di THEN [started EXCEPT !.treat = "ft_orders"]
                       ELSE FastAfterOrders(started)]
     /\ workup' = Stamped(workup, pid,
                          (IF labs THEN {"lab_start"} ELSE {})
                            \cup (IF reassess THEN {"reassess_start"} ELSE {}))
     /\ eventlog' = eventlog
                      \cup (IF labs THEN {Event("lab_start", pid, p.area)} ELSE {})
                      \cup (IF di THEN {Event("di_start", pid, p.area)} ELSE {})
                      \cup (IF reassess THEN {Event("reassess_start", pid, p.area)}
                            ELSE {})
     /\ rows' = IF reassess
                THEN add(rows2, now, Event("reassess_start", pid, p.area))
                ELSE rows2
     /\ UNCHANGED <<now, patient_id, acute_q, fasttrack_q, _busy, _ft_busy,
                    _download_busy, _download_wait, _unit_busy, _unit_wait,
                    _doctors_by_area, _offload_tokens, scheduler, generators,
                    doctor_table, cfg, exception, by_area, _nurse_panels>>

\* _run_labs after its timeout, in fast track.
FastLabsEnd(pid) ==
  LET p == patients[pid]
  IN /\ Alive
     /\ p.treat = "ft_orders"
     /\ Did(pid, "lab_start") /\ ~Did(pid, "lab_end")
     /\ workup' = Stamped(workup, pid, {"lab_end"})
     /\ UNCHANGED patients
     /\ eventlog' = eventlog \cup {Event("lab_end", pid, p.area)}
     /\ rows' = add(rows, now, Event("lab_end", pid, p.area))
     /\ UNCHANGED <<now, patient_id, acute_q, fasttrack_q, _busy, _ft_busy,
                    _download_busy, _download_wait, _unit_busy, _unit_wait,
                    _doctors_by_area, _offload_tokens, scheduler, generators,
                    doctor_table, cfg, exception, by_area, _nurse_panels>>

\* _run_di after its timeout, in fast track.
FastDiEnd(pid) ==
  LET p == patients[pid]
  IN /\ Alive
     /\ p.treat = "ft_orders"
     /\ p.di_start /\ ~Did(pid, "di_end")
     /\ workup' = Stamped(workup, pid, {"di_end"})
     /\ UNCHANGED patients
     /\ eventlog' = eventlog \cup {Event("di_end", pid, p.area)}
     /\ rows' = add(rows, now, Event("di_end", pid, p.area))
     /\ UNCHANGED <<now, patient_id, acute_q, fasttrack_q, _busy, _ft_busy,
                    _download_busy, _download_wait, _unit_busy, _unit_wait,
                    _doctors_by_area, _offload_tokens, scheduler, generators,
                    doctor_table, cfg, exception, by_area, _nurse_panels>>

\* Mutation: the flow goes on as soon as one of the orders has ended.
OrdersJoinedAnyOf(pid) ==
  \/ Did(pid, "lab_start") /\ Did(pid, "lab_end")
  \/ patients[pid].di_start /\ Did(pid, "di_end")

\* simpy.events.AllOf(self.env, procs): every process started has ended.
OrdersJoined(pid) ==
  /\ Did(pid, "lab_start") => Did(pid, "lab_end")
  /\ patients[pid].di_start => Did(pid, "di_end")

\* After AllOf: the treatment of a 1-touch patient, or the reassessment.
FastOrdersEnd(pid) ==
  LET p == patients[pid]
      reassess == one_touch(p) # 1
  IN /\ Alive
     /\ p.treat = "ft_orders"
     /\ OrdersJoined(pid)
     /\ patients' = [patients EXCEPT ![pid] = FastAfterOrders(p)]
     /\ workup' = Stamped(workup, pid,
                          IF reassess THEN {"reassess_start"} ELSE {})
     /\ eventlog' = eventlog
                      \cup (IF reassess THEN {Event("reassess_start", pid, p.area)}
                            ELSE {})
     /\ rows' = IF reassess
                THEN add(rows, now, Event("reassess_start", pid, p.area))
                ELSE rows
     /\ UNCHANGED <<now, patient_id, acute_q, fasttrack_q, _busy, _ft_busy,
                    _download_busy, _download_wait, _unit_busy, _unit_wait,
                    _doctors_by_area, _offload_tokens, scheduler, generators,
                    doctor_table, cfg, exception, by_area, _nurse_panels>>

\* ------------------------------------------------------ arrival generators
MaxArrivalsPerHour == 2

Generators == {"walkin", "ems"}

\* cfg.arrivals.walkin_hourly_lambda and cfg.ems.hourly_lambda (24 entries):
\* walk-ins arrive only in hour 1 of the day, ambulances in every hour.
walkin_hourly_lambda == [h \in 0..23 |-> IF h = 1 THEN 1 ELSE 0]
ems_hourly_lambda == [h \in 0..23 |-> 1]
hourly(g) == IF g = "walkin" THEN walkin_hourly_lambda ELSE ems_hourly_lambda

\* np.random.poisson(rate): 0 for a zero rate, any count otherwise.
PoissonCounts(rate) == IF rate = 0 THEN {0} ELSE 0..MaxArrivalsPerHour

\* sorted(np.random.randint(0, 60, size=k)): the minutes sampled here.
OffsetChoices == {0, 20, 59}
SortedOffsets(k) ==
  {offs \in [1..k -> OffsetChoices] : \A i \in 1..(k - 1) : offs[i] <= offs[i + 1]}

\* hour_idx += 1 and back to the top of the loop; the generator is followed
\* for the hours 0..MaxHour.
NextHour(gen) ==
  [gen EXCEPT !.hour_idx = gen.hour_idx + 1, !.offsets = <<>>,
              !.pc = IF gen.hour_idx + 1 > MaxHour THEN "stopped" ELSE "loop"]

\* yield env.timeout(max(0, off - (env.now % 60))) for the next offset.
WaitOffset(gen, t, offs) ==
  [gen EXCEPT !.pc = "offset", !.offsets = offs,
              !.wake = t + Max(0, Head(offs) - (t % HourMinutes))]

\* After the for loop: sleep to the hour boundary only if off it.
AfterOffsets(gen, t) ==
  IF t % HourMinutes # 0
  THEN [gen EXCEPT !.pc = "hour", !.offsets = <<>>,
                   !.wake = t + (HourMinutes - (t % HourMinutes))]
  ELSE NextHour(gen)

\* A sleeping generator resumes when no process is running and its timeout
\* is the earliest pending one.
CanResume(g) ==
  /\ \A g2 \in Generators : generators[g2].pc # "loop"
  /\ \A g2 \in Generators :
       generators[g2].pc \in {"offset", "hour"}
         => generators[g].wake <= generators[g2].wake

\* Top of the while loop: draw the count and the offsets of hour_idx.
GenLoop(g) ==
  LET gen == generators[g]
  IN /\ gen.pc = "loop"
     /\ \E k \in PoissonCounts(hourly(g)[gen.hour_idx % 24]) :
          \E offs \in SortedOffsets(k) :
            generators' = [generators EXCEPT ![g] =
                             IF offs = <<>> THEN AfterOffsets(gen, now)
                             ELSE WaitOffset(gen, now, offs)]
     /\ UNCHANGED <<now, patient_id, patients, acute_q, fasttrack_q, _busy,
                    _ft_busy, _download_busy, _download_wait, _unit_busy,
                    _unit_wait, _doctors_by_area, _offload_tokens, scheduler,
                    doctor_table, eventlog, rows, cfg, by_area, workup, _nurse_panels, exception>>

\* After the offset timeout: make_patient_cb, then the next offset or the
\* end of the hour.
GenEmit(g) ==
  LET gen == generators[g]
      t == gen.wake
      rest == Tail(gen.offsets)
  IN /\ gen.pc = "offset"
     /\ CanResume(g)
     /\ now' = t
     /\ generators' = [generators EXCEPT ![g] =
                         IF rest = <<>> THEN AfterOffsets(gen, t)
                         ELSE WaitOffset(gen, t, rest)]
     /\ \E is_fast \in BOOLEAN, area \in AcuteAreas, touch \in 1..3,
           acuity \in AcuityLevels, ems_direct \in BOOLEAN, is_critical \in BOOLEAN :
          IF g = "walkin"
          THEN /\ ~ems_direct /\ ~is_critical
               /\ _make_patient(t, FALSE, is_fast, area, touch, acuity, FALSE, FALSE)
          ELSE /\ ~is_fast
               /\ _make_patient(t, TRUE, FALSE, area, touch, acuity,
                                ems_direct, is_critical)

\* After the timeout to the hour boundary.
GenHourEnd(g) ==
  LET gen == generators[g]
  IN /\ gen.pc = "hour"
     /\ CanResume(g)
     /\ now' = gen.wake
     /\ generators' = [generators EXCEPT ![g] = NextHour(gen)]
     /\ UNCHANGED <<patient_id, patients, acute_q, fasttrack_q, _busy,
                    _ft_busy, _download_busy, _download_wait, _unit_busy,
                    _unit_wait, _doctors_by_area, _offload_tokens, scheduler,
                    doctor_table, eventlog, rows, cfg, by_area, workup, _nurse_panels, exception>>

\* ArrivalPolicy._walkins and EMSArrivalPolicy._ems
_walkins == GenLoop("walkin") \/ GenEmit("walkin") \/ GenHourEnd("walkin")
_ems == GenLoop("ems") \/ GenEmit("ems") \/ GenHourEnd("ems")

\* ------------------------------------------------------------ the system
\* SingleSiteSim.__init__.  The constructor never calls _init_doctors, the
\* only code that assigns self._doctors_by_area: the table is absent as
\* constructed, and built when the embedding code calls _init_doctors
\* before the run.
Constructed(c) ==
  /\ cfg = c
  /\ exception = "none"
  /\ now = 0
  /\ patient_id = 0
  /\ patients = [pid \in Pids |-> NoPatient]
  /\ acute_q = <<>>
  /\ fasttrack_q = <<>>
  /\ _busy = [a \in AcuteAreas |-> 0]
  /\ _ft_busy = 0
  /\ _download_busy = 0
  /\ _download_wait = <<>>
  /\ _unit_busy = [u \in Units |-> 0]
  /\ _unit_wait = [u \in Units |-> <<>>]
  /\ _doctors_by_area = [d \in Doctors |->
       [active_panel |-> 0, signed_up_by_abs_hour |-> [h \in Hours |-> 0]]]
  /\ by_area = [d \in Doctors |->
       [active_panel |-> 0, signed_up_by_abs_hour |-> [h \in Hours |-> 0]]]
  /\ _nurse_panels = _init_nurses
  /\ workup = {}
  /\ _offload_tokens = [level |-> _offload_staff_for_hour(0), get_queue |-> <<>>]
  /\ scheduler = "sleep"
  /\ generators = [g \in Generators |->
       [hour_idx |-> 0, offsets |-> <<>>, pc |-> "loop", wake |-> 0]]
  /\ doctor_table \in {"absent", "built"}
  /\ eventlog = {}
  /\ rows = <<>>

Init == Constructed(BedBound)

WalkIn ==
  \E is_fast \in BOOLEAN, area \in AcuteAreas, touch \in 1..3,
     acuity \in AcuityLevels :
    /\ _make_patient(now, FALSE, is_fast, area, touch, acuity, FALSE, FALSE)
    /\ UNCHANGED <<now, generators>>

EmsArrival ==
  \E area \in AcuteAreas, touch \in 1..3, acuity \in AcuityLevels,
     ems_direct \in BOOLEAN, is_critical \in BOOLEAN :
    /\ _make_patient(now, TRUE, FALSE, area, touch, acuity, ems_direct, is_critical)
    /\ UNCHANGED <<now, generators>>

\* The emergency department within one clock hour: arrivals, offload,
\* abandonment, both dispatchers, treatment, admission and inpatient stays.
Next ==
  \/ WalkIn
  \/ EmsArrival
  \/ \E pid \in Pids : _lwbs_watch(pid)
  \/ \E pid \in Pids : EmsOffloadGet(pid)
  \/ \E pid \in Pids : EmsOffloadEnd(pid)
  \/ \E pid \in Pids : EmsOffloadRoute(pid)
  \/ _acute_bed_dispatcher
  \/ _fasttrack_bed_dispatcher
  \/ \E pid \in Pids, want_consult \in BOOLEAN : AcuteAssessEnd(pid, want_consult)
  \/ \E pid \in Pids, service \in Units, admitted \in BOOLEAN :
       AcuteConsultEnd(pid, service, admitted)
  \/ \E pid \in Pids : AcuteNurseLabsEnd(pid)
  \/ \E pid \in Pids : AcuteTreatEnd(pid)
  \/ \E pid \in Pids : FastAssessEnd(pid)
  \/ \E pid \in Pids : FastReassessEnd(pid)
  \/ \E pid \in Pids : FastTreatEnd(pid)
  \/ \E pid \in Pids : _inpatient_proc(pid)

Spec == Init /\ [][Next]_vars

\* The offload bays over the hours: EMS arrivals, the offload process, the
\* clock and the hourly staff scheduler.
NextOffload ==
  \/ EmsArrival
  \/ \E pid \in Pids : EmsOffloadGet(pid)
  \/ \E pid \in Pids : EmsOffloadEnd(pid)
  \/ \E pid \in Pids : EmsOffloadRoute(pid)
  \/ Tick
  \/ _offload_staff_scheduler

SpecOffload == Init /\ [][NextOffload]_vars

\* The two arrival generators on the simulation clock.
NextArrivals ==
  \/ _walkins
  \/ _ems

SpecArrivals == Init /\ [][NextArrivals]_vars

\* The department over the hours, with beds or doctors the scarce resource:
\* walk-ins, abandonment, both dispatchers, treatment, admission and the
\* clock.  No ambulance arrives here, so the offload container is read by
\* nobody and the scheduler that refills it is left out.
InitDoctors ==
  \E c \in {BedBound, DoctorBound, OneBedOneDoctor} : Constructed(c)

NextDoctors ==
  \/ WalkIn
  \/ \E pid \in Pids : _lwbs_watch(pid)
  \/ _acute_bed_dispatcher
  \/ _fasttrack_bed_dispatcher
  \/ \E pid \in Pids, want_consult \in BOOLEAN : AcuteAssessEnd(pid, want_consult)
  \/ \E pid \in Pids, service \in Units, admitted \in BOOLEAN :
       AcuteConsultEnd(pid, service, admitted)
  \/ \E pid \in Pids : AcuteNurseLabsEnd(pid)
  \/ \E pid \in Pids : AcuteTreatEnd(pid)
  \/ \E pid \in Pids : FastAssessEnd(pid)
  \/ \E pid \in Pids : FastReassessEnd(pid)
  \/ \E pid \in Pids : FastTreatEnd(pid)
  \/ \E pid \in Pids : _inpatient_proc(pid)
  \/ Tick

SpecDoctors == InitDoctors /\ [][NextDoctors]_vars

\* The department constructed from a configuration whose doctors do not
\* match its areas.  The constructor checks neither; _init_doctors, where
\* the embedding code calls it, builds the table only if every area is
\* covered.
InitStartup ==
  \E c \in {UncoveredArea, UnknownDoctorArea} :
    /\ Constructed(c)
    /\ doctor_table = "built" => DoctorsCovered(c)

NextStartup ==
  \/ WalkIn
  \/ \E pid \in Pids : _lwbs_watch(pid)
  \/ _acute_bed_dispatcher
  \/ _fasttrack_bed_dispatcher
  \/ \E pid \in Pids, want_consult \in BOOLEAN : AcuteAssessEnd(pid, want_consult)
  \/ \E pid \in Pids, service \in Units, admitted \in BOOLEAN :
       AcuteConsultEnd(pid, service, admitted)
  \/ \E pid \in Pids : AcuteNurseLabsEnd(pid)
  \/ \E pid \in Pids : AcuteTreatEnd(pid)
  \/ \E pid \in Pids : _inpatient_proc(pid)

SpecStartup == InitStartup /\ [][NextStartup]_vars

\* The acute queue over the hours: walk-ins and ambulances, offload and
\* download holding, abandonment, the acute dispatcher and the clock.
NextAcuteQueue ==
  \/ WalkIn
  \/ EmsArrival
  \/ \E pid \in Pids : _lwbs_watch(pid)
  \/ \E pid \in Pids : EmsOffloadGet(pid)
  \/ \E pid \in Pids : EmsOffloadEnd(pid)
  \/ \E pid \in Pids : EmsOffloadRoute(pid)
  \/ _acute_bed_dispatcher
  \/ Tick
  \/ _offload_staff_scheduler

SpecAcuteQueue == Init /\ [][NextAcuteQueue]_vars

\* The acute queue of two areas over the hours: walk-ins, abandonment, the
\* acute dispatcher and the clock.
InitTwoAreas == Constructed(TwoAreas)

NextTwoAreas ==
  \/ WalkIn
  \/ \E pid \in Pids : _lwbs_watch(pid)
  \/ _acute_bed_dispatcher
  \/ Tick
  \/ _offload_staff_scheduler

SpecTwoAreas == InitTwoAreas /\ [][NextTwoAreas]_vars

\* A 2-touch walk-in for an acute area: fast track is disabled and the
\* touch draw always falls on two touches.
WalkInAcuteTwoTouch ==
  \E area \in AcuteAreas, acuity \in AcuityLevels :
    /\ _make_patient(now, FALSE, FALSE, area, 2, acuity, FALSE, FALSE)
    /\ UNCHANGED <<now, generators>>

\* The admitting department: every walk-in is a 2-touch acute patient, a
\* consult is always ordered (consult_prob = 1) and always admits to
\* Medicine (one service, consult_admit_p = 1).
InitWard == Constructed(WardBound)

NextWard ==
  \/ WalkInAcuteTwoTouch
  \/ \E pid \in Pids : _lwbs_watch(pid)
  \/ _acute_bed_dispatcher
  \/ \E pid \in Pids : AcuteAssessEnd(pid, TRUE)
  \/ \E pid \in Pids : AcuteConsultEnd(pid, "Medicine", TRUE)
  \/ \E pid \in Pids : _inpatient_proc(pid)

SpecWard == InitWard /\ [][NextWard]_vars

\* Ambulance patients from arrival to the acute bed: offload, download
\* holding and its waitlist, abandonment and the acute dispatcher, within
\* one clock hour.
InitDownload == Constructed(HoldingBound)

\* An ambulance patient of two touches (p_one_touch = p_three_touch = 0).
EmsArrivalTwoTouch ==
  \E area \in AcuteAreas, acuity \in AcuityLevels,
     ems_direct \in BOOLEAN, is_critical \in BOOLEAN :
    /\ _make_patient(now, TRUE, FALSE, area, 2, acuity, ems_direct, is_critical)
    /\ UNCHANGED <<now, generators>>

NextDownload ==
  \/ EmsArrivalTwoTouch
  \/ \E pid \in Pids : _lwbs_watch(pid)
  \/ \E pid \in Pids : EmsOffloadGet(pid)
  \/ \E pid \in Pids : EmsOffloadEnd(pid)
  \/ \E pid \in Pids : EmsOffloadRoute(pid)
  \/ \E pid \in Pids : EmsOffloadTimeoutRaises(pid)
  \/ \E pid \in Pids : EmsOffloadRaised(pid)
  \/ \E pid \in Pids : EmsClearPoll(pid)
  \/ \E pid \in Pids : EmsClearEnd(pid)
  \/ _acute_bed_dispatcher

SpecDownload == InitDownload /\ [][NextDownload]_vars

\* The shift tests over the days: the clock moves in steps of half an hour,
\* the times the polling dispatchers can ask for a doctor at.
ShiftDays == 2
ShiftStep == 30

InitShift == \E c \in ShiftConfigs : Constructed(c)

ShiftClock ==
  /\ now + ShiftStep < ShiftDays * DayMinutes
  /\ now' = now + ShiftStep
  /\ UNCHANGED <<patient_id, patients, acute_q, fasttrack_q, _busy, _ft_busy,
                 _download_busy, _download_wait, _unit_busy, _unit_wait,
                 _doctors_by_area, _offload_tokens, scheduler, generators,
                 doctor_table, eventlog, rows, cfg, by_area, workup, _nurse_panels, exception>>

NextShift == ShiftClock

SpecShift == InitShift /\ [][NextShift]_vars

\* The nurse units: acute walk-ins in a department with a nurse model,
\* from arrival through nursing to discharge, within one clock hour.  No
\* consult admits (consult_admit_p = 0).  With three arrivals followed
\* every patient is of one touch (p_one_touch = 1), with two arrivals of
\* one or two touches.
InitNursing == \E c \in {NurseRatio, NurseRatioShared, NurseTeam} : Constructed(c)

WalkInNursed ==
  \E area \in AcuteAreas, acuity \in AcuityLevels,
     touch \in IF cfg.arrivals > MaxPatients THEN {1} ELSE {1, 2} :
    /\ _make_patient(now, FALSE, FALSE, area, touch, acuity, FALSE, FALSE)
    /\ UNCHANGED <<now, generators>>

NextNursing ==
  \/ WalkInNursed
  \/ _acute_bed_dispatcher
  \/ \E pid \in Pids, want_consult \in BOOLEAN : AcuteAssessEnd(pid, want_consult)
  \/ \E pid \in Pids : AcuteConsultEnd(pid, "Medicine", FALSE)
  \/ \E pid \in Pids : AcuteNurseStart(pid)
  \/ \E pid \in Pids : AcuteLabsEnd(pid)
  \/ \E pid \in Pids : AcuteNursingEnd(pid)
  \/ \E pid \in Pids : AcuteDiEnd(pid)
  \/ \E pid \in Pids : AcuteTreatEnd(pid)

SpecNursing == InitNursing /\ [][NextNursing]_vars

\* The orders: labs and imaging of two walk-ins, in an acute area with a
\* nurse model and in fast track, within one clock hour.
InitOrders == Constructed([NurseRatio EXCEPT !.arrivals = MaxPatients])

WalkInWorkup ==
  \E is_fast \in BOOLEAN, area \in AcuteAreas, touch \in 1..3,
     acuity \in AcuityLevels :
    /\ _make_patient(now, FALSE, is_fast, area, touch, acuity, FALSE, FALSE)
    /\ UNCHANGED <<now, generators>>

NextOrders ==
  \/ WalkInWorkup
  \/ _acute_bed_dispatcher
  \/ _fasttrack_bed_dispatcher
  \/ \E pid \in Pids, want_consult \in BOOLEAN : AcuteAssessEnd(pid, want_consult)
  \/ \E pid \in Pids : AcuteConsultEnd(pid, "Medicine", FALSE)
  \/ \E pid \in Pids : AcuteNurseStart(pid)
  \/ \E pid \in Pids : AcuteLabsEnd(pid)
  \/ \E pid \in Pids : AcuteNursingEnd(pid)
  \/ \E pid \in Pids : AcuteDiEnd(pid)
  \/ \E pid \in Pids : AcuteTreatEnd(pid)
  \/ \E pid \in Pids : FastAssessEndOrders(pid)
  \/ \E pid \in Pids : FastLabsEnd(pid)
  \/ \E pid \in Pids : FastDiEnd(pid)
  \/ \E pid \in Pids : FastOrdersEnd(pid)
  \/ \E pid \in Pids : FastReassessEnd(pid)
  \/ \E pid \in Pids : FastTreatEnd(pid)

SpecOrders == InitOrders /\ [][NextOrders]_vars

\* The doctor manager on its own table: reservations and releases for any
\* area at the hours of the clock.  MaxSignups bounds the signups one
\* doctor collects.
MaxSignups == 3

InitSignup == \E c \in {SharedArea, SharedAreaLongShift, BedBound} : Constructed(c)

TrySignup(area) ==
  LET r == try_signup(by_area, area, now)
  IN /\ \A d \in Doctors :
          by_area[d].signed_up_by_abs_hour[_abs_hour(now)] < MaxSignups
     /\ by_area' = r.by_area
     /\ UNCHANGED <<now, patient_id, patients, acute_q, fasttrack_q, _busy,
                    _ft_busy, _download_busy, _download_wait, _unit_busy,
                    _unit_wait, _doctors_by_area, _offload_tokens, scheduler,
                    generators, doctor_table, eventlog, rows, cfg, exception,
                    _nurse_panels, workup>>

ReleasePanel(d) ==
  /\ by_area' = release_panel(by_area, d)
  /\ UNCHANGED <<now, patient_id, patients, acute_q, fasttrack_q, _busy,
                 _ft_busy, _download_busy, _download_wait, _unit_busy,
                 _unit_wait, _doctors_by_area, _offload_tokens, scheduler,
                 generators, doctor_table, eventlog, rows, cfg, exception,
                 _nurse_panels, workup>>

SignupClock ==
  /\ now + HourMinutes <= MaxHour * HourMinutes
  /\ now' = now + HourMinutes
  /\ UNCHANGED <<patient_id, patients, acute_q, fasttrack_q, _busy,
                 _ft_busy, _download_busy, _download_wait, _unit_busy,
                 _unit_wait, _doctors_by_area, _offload_tokens, scheduler,
                 generators, doctor_table, eventlog, rows, cfg, exception,
                 by_area, workup, _nurse_panels>>

NextSignup ==
  \/ \E area \in AcuteAreas \cup {_ft_name} : TrySignup(area)
  \/ \E d \in Doctors : ReleasePanel(d)
  \/ SignupClock

SpecSignup == InitSignup /\ [][NextSignup]_vars

\* ------------------------------------------------------------- properties
Created == {pid \in Pids : patients[pid].created}

\* The three terminal states of a patient.
Discharged(p) == p.bed_end
LeftWithoutBeingSeen(p) == p.lwbs = 1
Transferred(p) == p.inpatient_start
Terminal(p) == Discharged(p) \/ LeftWithoutBeingSeen(p) \/ Transferred(p)

Logged(etype, pid) == \E e \in eventlog : e.event = etype /\ e.pid = pid

\* C1: in every reachable state each acute area's occupancy lies between 0
\* and the area's capacity, and the fast-track occupancy between 0 and the
\* fast-track capacity, whatever the order of placements, discharges and
\* inpatient transfers.
C1_BedOccupancyWithinCapacity ==
  /\ \A a \in AcuteAreas : 0 <= _busy[a] /\ _busy[a] <= _cap[a]
  /\ 0 <= _ft_busy /\ _ft_busy <= _ft_cap

\* C1 happens: an acute area is full after an earlier patient has left its
\* bed, another patient queues for the area and a doctor could take it, so
\* only the capacity test holds the dispatcher back.
C1_FullAreaUnderDemand ==
  \E a \in AcuteAreas :
    /\ _busy[a] = _cap[a]
    /\ \E pid \in Created : patients[pid].area = a /\ InSeq(acute_q, pid)
    /\ _choose_doctor(_doctors_by_area, a, now) # "none"

\* C2, on finite runs: a patient whose treatment process has returned is in
\* a terminal state (discharged, left without being seen or transferred);
\* no other process acts on a placed patient afterwards, so one that is not
\* terminal then never becomes terminal.
C2_FinishedTreatmentIsTerminal ==
  \A pid \in Created : patients[pid].treat = "done" => Terminal(patients[pid])

\* C3: no patient is in more than one terminal state: at most one of
\* discharged (bed_end set), lwbs = 1 and transferred (inpatient_start set).
C3_AtMostOneTerminalState ==
  \A pid \in Created :
    LET p == patients[pid]
    IN /\ ~(Discharged(p) /\ LeftWithoutBeingSeen(p))
       /\ ~(Discharged(p) /\ Transferred(p))
       /\ ~(LeftWithoutBeingSeen(p) /\ Transferred(p))

\* C3 happens: a patient was transferred to a unit and its treatment process
\* has returned after the admission.
C3_TransferredAndTreatmentReturned ==
  \E pid \in Created :
    /\ Transferred(patients[pid])
    /\ patients[pid].treat = "done"
    /\ Logged("admit_requested", pid)

\* C4: no patient has both lwbs = 1 and bed_start set, whichever of the
\* abandonment timer and the dispatcher runs first.
C4_LwbsExcludesBedStart ==
  \A pid \in Created : ~(patients[pid].lwbs = 1 /\ patients[pid].bed_start)

\* C4 happens: the timer of a placed patient has fired and left it alone,
\* and the timer of a patient still queued has made it leave.
C4_TimerFiredBothWays ==
  /\ \E pid \in Created :
       /\ patients[pid].bed_start
       /\ patients[pid].watch = "done"
       /\ patients[pid].lwbs = 0
  /\ \E pid \in Created :
       /\ patients[pid].lwbs = 1
       /\ ~patients[pid].bed_start

\* A placed patient whose encounter in the department is still in progress:
\* not discharged, not transferred, treatment process not returned.
InEdBed(p) ==
  p.created /\ p.bed_start /\ ~p.bed_end /\ ~p.inpatient_start /\ p.treat # "done"

\* C5: no bed leaks: the occupancy of every acute area and of the fast track
\* equals the number of placed patients there whose encounter is still in
\* progress, also after a failed admission request.
C5_OccupancyCountsPatientsInProgress ==
  /\ \A a \in AcuteAreas :
       _busy[a] = Cardinality({pid \in Pids : InEdBed(patients[pid])
                                               /\ patients[pid].area = a})
  /\ _ft_busy = Cardinality({pid \in Pids : InEdBed(patients[pid])
                                            /\ patients[pid].area = _ft_name})

\* C6: when a waitlisted admitted patient is transferred, the signal its
\* treatment process waits on is resolved at the transfer: no transferred
\* patient has an unresolved signal.
C6_SignalResolvedAtTransfer ==
  \A pid \in Created :
    (patients[pid].inpatient_start /\ patients[pid].admit_event # "none")
      => patients[pid].admit_event = "triggered"

\* C7: after an admission request to a unit that is not configured, the
\* failure is logged, no admission field is set, and the treatment ends only
\* by a normal discharge (bed_end and disposition set).
C7_FailedAdmissionEndsInDischarge ==
  \A pid \in Created :
    (\E e \in eventlog : /\ e.event = "admit_requested" /\ e.pid = pid
                         /\ service_to_unit(e.unit) \notin DOMAIN _unit_cap)
      => /\ Logged("admit_failed_no_unit", pid)
         /\ patients[pid].admit = 0
         /\ patients[pid].admit_unit = "none"
         /\ patients[pid].treat = "done"
              => /\ patients[pid].bed_end
                 /\ patients[pid].disposition_time # None

\* C8: an admission to a configured unit with 0 beds is recorded as
\* admit_failed_no_unit and the patient is treated as not admitted: it is
\* not put on the unit's waitlist and its treatment does not wait for a bed.
C8_ZeroBedUnitFailsAdmission ==
  \A pid \in Created :
    (\E e \in eventlog : /\ e.event = "admit_requested" /\ e.pid = pid
                         /\ service_to_unit(e.unit) \in DOMAIN _unit_cap
                         /\ _unit_cap[service_to_unit(e.unit)] = 0)
      => /\ Logged("admit_failed_no_unit", pid)
         /\ patients[pid].admit = 0
         /\ patients[pid].treat # "board"
         /\ \A u \in Units : ~InSeq(_unit_wait[u], pid)

\* C9: a generator creates the patients of hour h only in [60h, 60h + 60):
\* every scheduled creation lies in the hour whose count was drawn, and
\* every patient arrived in an hour whose rate is not zero.
C9_ArrivalsInsideTheirHour ==
  /\ \A g \in Generators :
       generators[g].pc = "offset"
         => generators[g].wake \div HourMinutes = generators[g].hour_idx
  /\ \A pid \in Created :
       LET p == patients[pid]
       IN hourly(IF p.is_ems THEN "ems" ELSE "walkin")
            [_hour_of_day(p.arrival_time)] # 0

\* The patients holding an offload bay: between get(1) and put(1).
OffloadHolders == {pid \in Pids : patients[pid].offload = "service"}

\* C10: the number of patients holding an offload bay never exceeds the
\* capacity the staffing profile sets for the hour (under the constant
\* profile n, never more than n).
C10_OffloadHoldersWithinStaffing ==
  Cardinality(OffloadHolders) <= _offload_staff_for_hour(_abs_hour(now))

\* C11: every doctor's active panel stays between zero and the doctor's
\* maximum panel, whatever the interleaving of reservations, rollbacks
\* and releases.
C11_PanelWithinMaximum ==
  \A d \in Doctors :
    /\ 0 <= _doctors_by_area[d].active_panel
    /\ _doctors_by_area[d].active_panel <= DoctorConfig[d].max_panel

\* A doctor's panel is full while a free bed of the doctor's area is in
\* demand: only the panel limit keeps the waiting patient out of the bed.
C11_FullPanelUnderDemand ==
  /\ doctor_table = "built"
  /\ \E d \in Doctors :
       /\ DoctorConfig[d].area \in AcuteAreas
       /\ _doctors_by_area[d].active_panel = DoctorConfig[d].max_panel
       /\ _busy[DoctorConfig[d].area] < _cap[DoctorConfig[d].area]
       /\ \E pid \in Pids :
            /\ InSeq(acute_q, pid)
            /\ patients[pid].area = DoctorConfig[d].area

C13_DownloadOccupancyWithinCapacity ==
  0 <= _download_busy /\ _download_busy <= _download_cap

\* The holding area is full again after a held patient left it for an
\* acute bed and the waitlist backfilled the freed place.
C13_DownloadRefilledToCapacity ==
  /\ _download_busy = _download_cap
  /\ \E pid \in Pids : patients[pid].download_end
  /\ \E pid \in Pids :
       /\ patients[pid].is_critical
       /\ patients[pid].download_start
       /\ ~patients[pid].download_end

\* C14: the occupancy of every inpatient unit stays between zero and the
\* unit's capacity.
C14_UnitOccupancyWithinCapacity ==
  \A u \in Units : 0 <= _unit_busy[u] /\ _unit_busy[u] <= _unit_cap[u]

\* A unit with beds is full again: one stay has ended and the waitlist
\* backfilled the freed bed with a patient who had been boarding.
C14_UnitRefilledFromWaitlist ==
  \E u \in Units :
    /\ _unit_cap[u] > 0
    /\ _unit_busy[u] = _unit_cap[u]
    /\ \E pid \in Pids :
         patients[pid].admit_unit = u /\ patients[pid].inpatient_end
    /\ \E pid \in Pids :
         /\ patients[pid].admit_unit = u
         /\ patients[pid].stay = "stay"
         /\ Logged("admit_waitlist_enqueue", pid)

\* C15: every patient in a terminal state (discharged, left without being
\* seen, or transferred to an inpatient unit) has disposition_time set.
C15_TerminalHasDispositionTime ==
  \A pid \in Created :
    Terminal(patients[pid]) => patients[pid].disposition_time # None

\* In the current state: disposition not before arrival, and the length of
\* stay their difference.
DispositionConsistent ==
  \A pid \in Created :
    LET p == patients[pid]
    IN /\ p.disposition_time # None =>
            /\ p.disposition_time >= p.arrival_time
            /\ p.los_minutes = p.disposition_time - p.arrival_time
       /\ p.disposition_time = None => p.los_minutes = None

\* In one step: a disposition already written stays as written.
DispositionKept ==
  \A pid \in Pids :
    patients[pid].disposition_time # None =>
      /\ patients'[pid].disposition_time = patients[pid].disposition_time
      /\ patients'[pid].los_minutes = patients[pid].los_minutes

\* C16: whenever disposition_time is set it is not earlier than
\* arrival_time, and los_minutes is exactly their difference; once written,
\* neither field of a patient is written again.
C16_DispositionAfterArrivalWrittenOnce ==
  []DispositionConsistent /\ [][DispositionKept]_vars

\* A patient who arrived after the clock had started has been discharged,
\* and a patient who arrived in one hour has been discharged in a later one.
C16_DispositionInLaterHour ==
  /\ \E pid \in Created :
       /\ patients[pid].arrival_time > 0
       /\ patients[pid].disposition_time # None
  /\ \E pid \in Created :
       /\ patients[pid].disposition_time # None
       /\ patients[pid].los_minutes > 0

\* C17: exactly one of one_touch, two_touch and three_touch is 1 for every
\* patient, and a three-touch patient is never in the fast-track queue nor
\* placed or treated by the fast-track flow.
C17_OneTouchClassAndThreeTouchAcute ==
  \A pid \in Created :
    LET p == patients[pid]
    IN /\ {p.one_touch, p.two_touch, p.three_touch} \subseteq {0, 1}
       /\ p.one_touch + p.two_touch + p.three_touch = 1
       /\ p.three_touch = 1 =>
            /\ ~InSeq(fasttrack_q, pid)
            /\ p.area # _ft_name
            /\ p.treat # "ft_treat"
            /\ ~\E e \in eventlog :
                  e.pid = pid /\ e.event = "bed_start" /\ e.unit = _ft_name

\* A three-touch walk-in that the routing draw had sent to fast track was
\* rerouted and has been placed in an acute bed, while a patient of another
\* touch class is in fast track.
C17_ThreeTouchReroutedAndPlaced ==
  /\ \E pid \in Created :
       /\ patients[pid].three_touch = 1
       /\ Logged("route_override", pid)
       /\ patients[pid].bed_start
       /\ patients[pid].area \in AcuteAreas
  /\ \E pid \in Created :
       /\ patients[pid].three_touch = 0
       /\ patients[pid].area = _ft_name

\* The log records the placement of the patient in a bed of the area.
PlacedIn(log, pid, area) ==
  \E e \in log : e.event = "bed_start" /\ e.pid = pid /\ e.unit = area

LeftBed(log, pid) ==
  \E e \in log : e.pid = pid /\ e.event \in {"bed_end", "admit_transfer"}

\* In the current state: of two patients placed in a one-bed area, one has
\* left.
OneOccupantOfSingleBed ==
  \A a \in AcuteAreas : _cap[a] = 1 =>
    \A p1, p2 \in Created :
      (/\ p1 # p2
       /\ patients[p1].acuity = patients[p2].acuity
       /\ PlacedIn(eventlog, p1, a)
       /\ PlacedIn(eventlog, p2, a))
        => LeftBed(eventlog, p1) \/ LeftBed(eventlog, p2)

\* In one step: a placement in a one-bed area finds every earlier occupant
\* gone.
PlacedAfterOccupantLeft ==
  \A a \in AcuteAreas : _cap[a] = 1 =>
    \A second \in Pids :
      (~PlacedIn(eventlog, second, a) /\ PlacedIn(eventlog', second, a))
        => \A first \in Pids \ {second} :
             PlacedIn(eventlog, first, a) => LeftBed(eventlog, first)

C19_NoDrawFailureAbortsRun ==
  exception \notin {"lwbs_threshold_draw", "consult_time_draw"}

\* C20: a simulation constructed with an acute area (or an enabled fast
\* track with capacity > 0) that has no doctor, or with a doctor assigned to
\* an unknown area, has failed at startup: no simulated event is processed,
\* so no patient ever arrives or is queued.
C20_InvalidDoctorsStopStartup ==
  (~DoctorsCovered(cfg) \/ ~DoctorsKnown(cfg))
    => /\ patient_id = 0
       /\ acute_q = <<>>
       /\ fasttrack_q = <<>>
       /\ eventlog = {}

\* ------------------------------------------------------------ the event log
\* The timestamps of the rows never decrease in append order.
TimeOrdered ==
  \A i, j \in DOMAIN rows : i <= j => rows[i].t <= rows[j].t

\* A step leaves the rows it found where they were and as they were.
RowsKept ==
  /\ Len(rows') >= Len(rows)
  /\ SubSeq(rows', 1, Len(rows)) = rows

\* C21: the event log is append-only and time-ordered: every add puts one
\* record at the end, the earlier records stay unchanged, and the
\* timestamps are non-decreasing in append order.
C21_LogAppendOnlyTimeOrdered == []TimeOrdered /\ [][RowsKept]_vars

\* Rows were appended in two different clock hours.
C21_RowsOfTwoHours ==
  \E i, j \in DOMAIN rows : i < j /\ rows[i].t < rows[j].t

\* --------------------------------------------------- the acute dispatcher
\* The step places the patient in an acute bed.
AcutePlaced(pid) ==
  /\ ~patients[pid].bed_start
  /\ patients'[pid].bed_start
  /\ patients[pid].area # _ft_name

\* Row i of the log records the event of the patient.
RowIs(i, etype, pid) == rows[i].event = etype /\ rows[i].pid = pid

OvertakenOnArrival ==
  \E p, q \in Pids, i, j, k \in DOMAIN rows :
    /\ i < j /\ j < k
    /\ RowIs(i, "enqueue", q) /\ RowIs(j, "enqueue", p) /\ RowIs(k, "bed_start", p)
    /\ InSeq(acute_q, q)
    /\ EffectiveAcuity(patients[q]) = EffectiveAcuity(patients[p])
    /\ patients[p].arrival_time < patients[q].arrival_time

\* The patient in place k of the acute queue is the top-ranked candidate:
\* its area has a free bed, and every other such patient has a lower
\* effective acuity, or the same with a later arrival, or the same of both
\* with a later place in the queue.
TopRanked(k) ==
  LET p == patients[acute_q[k]]
  IN /\ HasFreeBed(_busy, p.area)
     /\ \A j \in 1..Len(acute_q) :
          LET q == patients[acute_q[j]]
          IN HasFreeBed(_busy, q.area) =>
               \/ EffectiveAcuity(q) < EffectiveAcuity(p)
               \/ /\ EffectiveAcuity(q) = EffectiveAcuity(p)
                  /\ \/ p.arrival_time < q.arrival_time
                     \/ p.arrival_time = q.arrival_time /\ k <= j

\* No doctor can be reserved for the top-ranked candidate of the scan.
TopBlocked ==
  \E k \in 1..Len(acute_q) :
    /\ TopRanked(k)
    /\ doctor_table = "built"
    /\ _choose_doctor(_doctors_by_area, patients[acute_q[k]].area, now) = "none"

\* C24: if no doctor can be reserved for the top-ranked acute candidate,
\* nobody is placed in that cycle, not even a lower-ranked candidate whose
\* area has a free bed and an available doctor: no patient leaves the acute
\* queue for a bed, no bed counter rises and no acute doctor is booked.
C24_BlockedTopPlacesNobody ==
  [][TopBlocked =>
       /\ \A pid \in Pids : ~AcutePlaced(pid)
       /\ \A a \in AcuteAreas : _busy'[a] <= _busy[a]
       /\ \A d \in Doctors :
            DoctorConfig[d].area \in AcuteAreas =>
              /\ _doctors_by_area'[d].active_panel <= _doctors_by_area[d].active_panel
              /\ _doctors_by_area'[d].signed_up_by_abs_hour
                   = _doctors_by_area[d].signed_up_by_abs_hour]_vars

\* The top-ranked candidate has no doctor while a lower-ranked one waits
\* for an area with a free bed and an available doctor.
C24_LowerRankedCouldBeServed ==
  /\ TopBlocked
  /\ \E pid \in Pids :
       /\ InSeq(acute_q, pid)
       /\ HasFreeBed(_busy, patients[pid].area)
       /\ _choose_doctor(_doctors_by_area, patients[pid].area, now) # "none"

\* ------------------------------------------------ the fast-track dispatcher
\* The step places the patient in a fast-track space.
FastPlaced(pid) ==
  /\ ~patients[pid].bed_start
  /\ patients'[pid].bed_start
  /\ patients[pid].area = _ft_name

\* Patient a stands before patient b in the queue.
Before(q, a, b) ==
  \E i, j \in 1..Len(q) : i < j /\ q[i] = a /\ q[j] = b

\* The fast-track queue has a patient and a free space, and no doctor can
\* be reserved for fast track.
FastBlocked ==
  /\ fasttrack_q # <<>>
  /\ _ft_busy < _ft_cap
  /\ doctor_table = "built"
  /\ _choose_doctor(_doctors_by_area, _ft_name, now) = "none"

\* C25: fast-track placement is FIFO: a patient is never placed while a
\* patient enqueued before it still waits in the fast-track queue, and the
\* patients who wait keep their order; when no doctor is available nobody is
\* placed, _ft_busy does not rise and no fast-track doctor is booked.
C25_FastTrackFifo ==
  [][/\ \A pid \in Pids :
          FastPlaced(pid) =>
            \A i \in 1..Len(fasttrack_q') :
              Before(fasttrack_q, pid, fasttrack_q'[i])
     /\ \A a, b \in Pids :
          Before(fasttrack_q, a, b) /\ InSeq(fasttrack_q', a)
            /\ InSeq(fasttrack_q', b) => Before(fasttrack_q', a, b)
     /\ FastBlocked =>
          /\ \A pid \in Pids : ~FastPlaced(pid)
          /\ _ft_busy' <= _ft_busy
          /\ \A d \in Doctors :
               DoctorConfig[d].area = _ft_name =>
                 /\ _doctors_by_area'[d].active_panel
                      <= _doctors_by_area[d].active_panel
                 /\ _doctors_by_area'[d].signed_up_by_abs_hour
                      = _doctors_by_area[d].signed_up_by_abs_hour]_vars

\* The first of two queued patients was placed while the second waited,
\* and the second, now at the head with a space free, has no doctor.
C25_HeadPlacedThenNoDoctor ==
  \E p, q \in Pids, i, j, k \in DOMAIN rows :
    /\ i < j /\ j < k
    /\ RowIs(i, "enqueue", p) /\ RowIs(j, "enqueue", q) /\ RowIs(k, "bed_start", p)
    /\ patients[p].area = _ft_name
    /\ fasttrack_q = <<q>>
    /\ FastBlocked

\* ------------------------------------------------ the abandonment timers
\* C26: an abandonment timer is launched for every patient at the moment
\* it is appended to the fast-track or the acute queue, by whatever path:
\* every patient with an enqueue row in the log has a timer, armed or run.
C26_TimerForEveryEnqueue ==
  \A i \in DOMAIN rows :
    rows[i].event = "enqueue" =>
      patients[rows[i].pid].watch \in {"armed", "done"}

\* ------------------------------------------------------ the touch classes
\* C27: a 1-touch patient, in an acute area or in fast track, never runs a
\* consult, never runs diagnostic imaging, even when it was ordered, and
\* never runs a reassessment.
C27_OneTouchSkipsConsultImagingReassess ==
  \A pid \in Pids :
    one_touch(patients[pid]) = 1 =>
      /\ patients[pid].treat \notin {"consult1", "consult2"}
      /\ patients[pid].treat \notin {"reassess_treat", "ft_reassess"}
      /\ ~patients[pid].di_start

\* --------------------------------------------------- the doctor's panel
\* The patients whose encounter with the doctor is under way: placed in a
\* bed with this doctor, and neither discharged nor transferred to a unit.
InEncounter(d) ==
  {pid \in Pids : /\ patients[pid].doctor_name = d
                  /\ patients[pid].bed_start
                  /\ ~patients[pid].bed_end
                  /\ ~patients[pid].inpatient_start}

\* C28: the panel slot booked at bed placement is held for the whole
\* encounter and released only at discharge or inpatient transfer: every
\* doctor's panel counts at least the patients whose encounter is under way.
C28_PanelSlotHeldForEncounter ==
  doctor_table = "built" =>
    \A d \in Doctors : _doctors_by_area[d].active_panel >= Cardinality(InEncounter(d))

\* ------------------------------------------------------------- boarding
\* The patients in a bed of the area: placed, and neither discharged nor
\* transferred to a unit; a patient who waits for a unit bed is among them.
Occupants(pts, a) ==
  {pid \in Pids : /\ pts[pid].area = a
                  /\ pts[pid].bed_start
                  /\ ~pts[pid].bed_end
                  /\ ~pts[pid].inpatient_start}

\* The patient waits for a bed of the unit it was admitted to.
Boarding(pid) ==
  /\ patients[pid].admit = 1
  /\ ~patients[pid].inpatient_start
  /\ InSeq(_unit_wait[patients[pid].admit_unit], pid)

\* The step starts the inpatient stay of the patient.
StayStarted(pid) == ~patients[pid].inpatient_start /\ patients'[pid].inpatient_start

\* Every area counts exactly its occupants, every boarding patient is one of
\* them, and so is counted.
BoardersCounted ==
  /\ \A a \in AcuteAreas : _busy[a] = Cardinality(Occupants(patients, a))
  /\ \A pid \in Pids :
       Boarding(pid) => pid \in Occupants(patients, patients[pid].area)

\* A step that starts inpatient stays lowers the count of the area by the
\* number of its patients transferred, and no step lowers the count of an
\* area whose occupants all stay.
BedFreedAtTransfer ==
  \A a \in AcuteAreas :
    LET moved == {pid \in Pids : patients[pid].area = a /\ StayStarted(pid)}
    IN /\ moved # {} => _busy'[a] = _busy[a] - Cardinality(moved)
       /\ Occupants(patients, a) \subseteq Occupants(patients', a)
            => _busy'[a] >= _busy[a]

\* C29: from the admit decision until the transfer a waitlisted patient
\* keeps its ED bed: the occupancy count of its area is not decremented
\* while it waits, and the bed is released once, in the step that starts the
\* inpatient stay.
C29_BoarderKeepsBedUntilTransfer ==
  []BoardersCounted /\ [][BedFreedAtTransfer]_vars

\* A patient was waitlisted for a unit, boarded in its ED bed, and was then
\* transferred when a unit bed came free.
C29_BoarderTransferred ==
  \E pid \in Pids :
    /\ Logged("admit_waitlist_enqueue", pid)
    /\ patients[pid].inpatient_start
    /\ _busy[patients[pid].area] = 0

\* ------------------------------------------------------ the unit waitlist
\* The step ends the inpatient stay of the patient.
StayEnded(pid) == ~patients[pid].inpatient_end /\ patients'[pid].inpatient_end

\* A unit with a waiting patient has no free bed.
WaitingMeansFull ==
  \A u \in Units : _unit_wait[u] # <<>> => ~UnitHasBed(_unit_busy, u)

\* A patient whose stay starts leaves nobody waiting for the unit who was
\* on its waitlist before it, or on the waitlist at all if the patient was
\* not; the patients who go on waiting keep their order; and the step that
\* ends a stay leaves the unit full or its waitlist empty.
ServedInTurn ==
  /\ \A pid, q \in Pids :
       LET u == patients'[pid].admit_unit
       IN StayStarted(pid) /\ q # pid /\ InSeq(_unit_wait[u], q)
            /\ InSeq(_unit_wait'[u], q)
            => Before(_unit_wait[u], pid, q)
  /\ \A u \in Units : \A a, b \in Pids :
       Before(_unit_wait[u], a, b) /\ InSeq(_unit_wait'[u], a)
         /\ InSeq(_unit_wait'[u], b) => Before(_unit_wait'[u], a, b)
  /\ \A pid \in Pids :
       StayEnded(pid) =>
         LET u == patients[pid].admit_unit
         IN _unit_wait'[u] = <<>> \/ ~UnitHasBed(_unit_busy', u)

\* C30: when an inpatient stay ends the unit bed is freed and, in the same
\* step, waitlisted patients of the unit are transferred in the order of
\* their admission requests while the unit has free beds; a waitlisted
\* patient is never overtaken by a later admission request to the unit.
C30_WaitlistServedInOrder == []WaitingMeansFull /\ [][ServedInTurn]_vars

\* Two patients waited for the unit; the stay of a third ended and the one
\* who had asked first was transferred while the other still waits.
C30_FirstOfTwoWaitersTransferred ==
  \E p, q \in Pids, i, j, k \in DOMAIN rows :
    /\ i < j /\ j < k
    /\ RowIs(i, "admit_waitlist_enqueue", p)
    /\ RowIs(j, "admit_waitlist_enqueue", q)
    /\ RowIs(k, "admit_transfer", p)
    /\ _unit_wait[patients[q].admit_unit] = <<q>>
    /\ patients[p].admit_unit = patients[q].admit_unit

\* ------------------------------------------------ EMS download holding
\* The patient occupies a slot of download holding.
HeldInDownload(p) == p.download_start /\ ~p.download_end

\* The step places the patient in an acute bed out of download holding.
PlacedFromDownload(pid) ==
  /\ HeldInDownload(patients[pid])
  /\ ~patients[pid].bed_start
  /\ patients'[pid].bed_start

RowBefore(etype_a, pid_a, etype_b, pid_b) ==
  \E i, j \in DOMAIN rows :
    /\ i < j
    /\ rows[i].event = etype_a /\ rows[i].pid = pid_a
    /\ rows[j].event = etype_b /\ rows[j].pid = pid_b

\* C31: when the acute dispatcher places a patient who is in download
\* holding, then in the same step the patient leaves the queue, its bed is
\* occupied, the download slot is released once, and the critical patients
\* at the head of the download waitlist, as many as there are free slots,
\* move in their order into download holding and to the tail of the acute
\* queue; the rest of the waitlist stays as it was.
C31_PlacementReleasesAndBackfillsDownload ==
  [][\A pid \in Pids :
       PlacedFromDownload(pid) =>
         LET area == patients[pid].area
             free == _download_cap - (_download_busy - 1)
             k == IF free < Len(_download_wait) THEN free
                  ELSE Len(_download_wait)
             moved == SubSeq(_download_wait, 1, k)
         IN /\ acute_q' = Remove(acute_q, pid) \o moved
            /\ ~InSeq(acute_q', pid)
            /\ _busy'[area] = _busy[area] + 1
            /\ patients'[pid].download_end
            /\ _download_busy' = (_download_busy - 1) + k
            /\ _download_wait' = SubSeq(_download_wait, k + 1, Len(_download_wait))
            /\ \A i \in 1..k :
                 /\ patients[moved[i]].is_critical
                 /\ ~patients[moved[i]].download_start
                 /\ patients'[moved[i]].download_start]_vars

\* C31 happens: a patient was placed out of download holding while two
\* critical patients waited for its slot; the one who had waited longer is
\* now in holding and in the acute queue, the other is still on the
\* waitlist.
C31_FirstWaiterBackfilled ==
  \E a, b, c \in Pids :
    /\ patients[a].download_end /\ patients[a].bed_start
    /\ RowBefore("download_wait", b, "download_wait", c)
    /\ RowBefore("download_wait", c, "bed_start", a)
    /\ HeldInDownload(patients[b]) /\ InSeq(acute_q, b)
    /\ _download_wait = <<c>>

\* The step is the routing of the patient after its offload bay is released.
Routed(pid) ==
  patients[pid].offload = "released" /\ patients'[pid].offload = "done"

\* C32: after an ambulance patient has released its offload bay, a
\* direct-to-bed or critical patient enters download holding, with its
\* acuity bonus raised, and the acute queue if holding has a free slot; if
\* holding is full a critical patient joins the download waitlist and not
\* the acute queue, and a non-critical one is appended to the acute queue
\* with an abandonment timer; a patient that is neither is appended to the
\* acute queue with an abandonment timer.
C32_RoutingAfterOffload ==
  [][\A pid \in Pids :
       Routed(pid) =>
         LET p == patients[pid]
             q == patients'[pid]
             wants == p.ems_direct \/ p.is_critical
             space == _download_busy < _download_cap
         IN IF wants /\ space
            THEN /\ HeldInDownload(q)
                 /\ q.acuity_bonus = p.acuity_bonus + 1
                 /\ _download_busy' = _download_busy + 1
                 /\ acute_q' = Append(acute_q, pid)
                 /\ _download_wait' = _download_wait
            ELSE IF wants /\ p.is_critical
            THEN /\ _download_wait' = Append(_download_wait, pid)
                 /\ acute_q' = acute_q /\ ~InSeq(acute_q', pid)
                 /\ ~q.download_start
                 /\ _download_busy' = _download_busy
            ELSE /\ acute_q' = Append(acute_q, pid)
                 /\ q.watch = "armed"
                 /\ ~q.download_start /\ q.acuity_bonus = p.acuity_bonus
                 /\ _download_busy' = _download_busy
                 /\ _download_wait' = _download_wait]_vars

\* C32 happens: with download holding full, a critical patient is on the
\* waitlist and outside the acute queue, and a direct-to-bed patient that is
\* not critical is in the acute queue with its abandonment timer running.
C32_FullHoldingSplitsCriticalAndDirect ==
  \E a, b, c \in Pids :
    /\ HeldInDownload(patients[a]) /\ _download_busy = _download_cap
    /\ patients[b].is_critical /\ InSeq(_download_wait, b) /\ ~InSeq(acute_q, b)
    /\ patients[c].ems_direct /\ ~patients[c].is_critical
    /\ patients[c].offload = "done" /\ ~patients[c].download_start
    /\ InSeq(acute_q, c) /\ patients[c].watch = "armed"

\* ------------------------------------------------------ the offload bays
\* The patients whose crew-clear process has been started.
CrewClearing == {pid \in Pids : patients[pid].clear # "none"}

\* C33: every offload bay token an ambulance patient acquires is given back
\* exactly once, after the service on the normal path and by the finally
\* block when the logic between acquisition and release raises, so that
\* tokens in the container and tokens held always add up to the staffing;
\* the crew-clear process, its wait for download holding included, runs
\* only after the release and never holds a token.
C33_OffloadTokenReleasedOnce ==
  /\ _offload_tokens.level + Cardinality(OffloadHolders)
       = _offload_staff_for_hour(_abs_hour(now))
  /\ \A pid \in Pids :
       /\ patients[pid].offload \in {"released", "done"} => patients[pid].offload_end
       /\ patients[pid].offload \in {"raising", "failed"} => ~patients[pid].offload_end
  /\ \A pid \in CrewClearing :
       patients[pid].offload = "done" /\ pid \notin OffloadHolders

\* C33 happens: the service timeout of one patient raised and its token,
\* given back by the finally block, is held by the patient that was waiting
\* for it, while the crew of a third patient is clearing.
C33_TokenOfRaisedOffloadReused ==
  \E a, b, c \in Pids :
    /\ patients[a].offload = "raising"
    /\ patients[b].offload = "service"
    /\ patients[c].clear \in {"wait_download", "timing"}

\* ------------------------------------------------------------ the shifts
\* The shift window as specified: daily, starting at offset s, lasting d.
OnShiftAsSpecified(s, d, t) ==
  IF d >= DayMinutes THEN TRUE
  ELSE IF d <= 0 THEN FALSE
  ELSE ((t % DayMinutes) - s) % DayMinutes < d

DocOnShiftAsSpecified ==
  \A d \in Doctors :
    _doc_on_shift(d, now)
      = OnShiftAsSpecified(DoctorConfig[d].start_min, DoctorConfig[d].shift_min, now)

\* C35: shift windows repeat daily and wrap past midnight: a doctor with
\* start offset s and duration d is on shift at time t exactly when
\* ((t mod 1440) - s) mod 1440 < d, always when d >= 1440 and never when
\* d <= 0, and DoctorManager.on_shift and EDTreatmentMixin._doc_on_shift
\* both give this answer.
C35_ShiftTestsAgreeWithWindow ==
  \A d \in Doctors :
    LET window == OnShiftAsSpecified(DoctorConfig[d].start_min,
                                     DoctorConfig[d].shift_min, now)
    IN /\ on_shift(d, now) = window
       /\ _doc_on_shift(d, now) = window

\* ---------------------------------------------------- doctor reservation
\* The doctors of an area a reservation may take, as specified: on shift by
\* the daily window, below the panel cap, below the cap of the hour.
EligibleAsSpecified(docs, area, t) ==
  {d \in Doctors :
     /\ DoctorConfig[d].area = area
     /\ OnShiftAsSpecified(DoctorConfig[d].start_min, DoctorConfig[d].shift_min, t)
     /\ docs[d].active_panel < DoctorConfig[d].max_panel
     /\ UnderHourCap(d, docs[d].signed_up_by_abs_hour[_abs_hour(t)], t)}

NameIndex(d) == CHOOSE i \in 1..Len(DoctorNames) : DoctorNames[i] = d

\* The reservation as specified: the least loaded eligible doctor, the
\* first by name among equals, booked once for the hour and once on the
\* panel; "none" and the table as it was when nobody is eligible.
ReservationAsSpecified(docs, area, t) ==
  LET eligible == EligibleAsSpecified(docs, area, t)
  IN IF eligible = {} THEN [doc |-> "none", by_area |-> docs]
     ELSE LET doc == CHOOSE d \in eligible :
                       \A e \in eligible :
                         \/ docs[d].active_panel < docs[e].active_panel
                         \/ /\ docs[d].active_panel = docs[e].active_panel
                            /\ NameIndex(d) <= NameIndex(e)
          IN [doc |-> doc,
              by_area |-> [x \in Doctors |->
                 IF x # doc THEN docs[x]
                 ELSE [active_panel |-> docs[x].active_panel + 1,
                       signed_up_by_abs_hour |->
                         [h \in Hours |->
                            IF h = _abs_hour(t)
                            THEN docs[x].signed_up_by_abs_hour[h] + 1
                            ELSE docs[x].signed_up_by_abs_hour[h]]]]]

\* _assign_doctor on a table: _choose_doctor, then the booking.
AssignDoctorResult(docs, area, t) ==
  LET doc == _choose_doctor(docs, area, t)
  IN IF doc = "none" THEN [doc |-> "none", by_area |-> docs]
     ELSE [doc |-> doc, by_area |-> BookDoctor(docs, doc, t)]

AssignDoctorAsSpecified ==
  \A area \in AcuteAreas \cup {_ft_name} :
    AssignDoctorResult(by_area, area, now) = ReservationAsSpecified(by_area, area, now)

\* C34: a doctor reservation for an area at time now selects, among the
\* area's doctors who are on shift, below their panel cap and below their
\* signup cap of the hour, the one with the fewest active panel members,
\* ties broken by name, and adds one signup to the absolute hour and one to
\* active_panel; when no doctor is eligible it returns none and changes
\* nothing.  Both DoctorManager.try_signup and _choose_doctor with
\* _assign_doctor do so.
C34_ReservationPicksLeastLoadedEligible ==
  \A area \in AcuteAreas \cup {_ft_name} :
    /\ try_signup(by_area, area, now) = ReservationAsSpecified(by_area, area, now)
    /\ AssignDoctorResult(by_area, area, now)
         = ReservationAsSpecified(by_area, area, now)

\* ------------------------------------------------------------ nurse units
\* The nurse units a patient holds: the Resources it is a user of.
NurseUnitsHeld(pid) ==
  {u \in {<<a, i>> : a \in AcuteAreas, i \in 0..MaxPatients} :
     /\ u[2] \in DOMAIN _nurse_panels[u[1]]
     /\ pid \in _nurse_panels[u[1]][u[2]].users}

NurseHolders(area) == {pid \in Pids : \E i \in 0..MaxPatients : <<area, i>> \in NurseUnitsHeld(pid)}

\* C37: a patient holds at most one nurse unit at any time, and only during
\* its nursing stage: the unit is given back when the nursing assessment
\* joined with the labs ends, whether the patient is then discharged or
\* treated further.  In ratio mode two patients of an area whose ids are
\* equal modulo the panel count never hold a unit together, in team mode at
\* most team_nurses patients of the area do, and the users of a Resource
\* never exceed its capacity.
C37_NurseUnitsHeldWithinCapacity ==
  /\ \A pid \in Pids :
       /\ Cardinality(NurseUnitsHeld(pid)) <= 1
       /\ NurseUnitsHeld(pid) # {}
            => /\ patients[pid].treat \in {"nurse_wait", "nursing"}
               /\ NurseUnitsHeld(pid) =
                    {<<patients[pid].area, _get_nurse_req(pid, patients[pid].area)>>}
       /\ Did(pid, "nurse_assess_end") => NurseUnitsHeld(pid) = {}
       /\ patients[pid].treat = "nursing" => NurseUnitsHeld(pid) # {}
  /\ \A a \in AcuteAreas :
       /\ _nurse_mode(a) = "ratio" =>
            \A p1 \in NurseHolders(a), p2 \in NurseHolders(a) :
              p1 # p2 => p1 % NursePanelCount(a) # p2 % NursePanelCount(a)
       /\ _nurse_mode(a) = "team" =>
            Cardinality(NurseHolders(a)) <= cfg.nurse_model.team_nurses
       /\ \A i \in DOMAIN _nurse_panels[a] :
            Cardinality(_nurse_panels[a][i].users) <= NurseCapacity(a)

\* A nurse unit has passed from a patient whose nursing has ended to one
\* that queued for it, while a patient on the other panel was served
\* without waiting.
C37_NurseUnitPassedOn ==
  \E a \in AcuteAreas, p1 \in Pids, p2 \in Pids :
    /\ p1 # p2
    /\ patients[p1].area = a /\ patients[p2].area = a
    /\ _get_nurse_req(p1, a) = _get_nurse_req(p2, a)
    /\ Did(p1, "nurse_assess_end")
    /\ patients[p2].treat = "nursing"
    /\ NurseUnitsHeld(p2) # {}
    /\ Event("nurse_assess_start", p2, a) \in eventlog
    /\ cfg.arrivals > MaxPatients

\* ------------------------------------------------- the order of the workup
\* The time of the row of an event of a patient.
RowTime(etype, pid) ==
  rows[CHOOSE i \in DOMAIN rows : rows[i].event = etype /\ rows[i].pid = pid].t

PastFastOrders(p) == p.treat \in {"ft_reassess", "ft_treat", "done"}

\* C36: for an acute patient of two or three touches imaging starts only
\* after the nursing assessment and the labs have both ended, and the first
\* reassessment starts only after imaging has ended; in fast track labs
\* and imaging start at the same instant and the flow goes on only when
\* both have ended.
C36_ImagingAfterNursingAndLabs ==
  \A pid \in Pids :
    LET p == patients[pid]
    IN /\ (p.area # _ft_name /\ (two_touch(p) = 1 \/ three_touch(p) = 1)) =>
            /\ p.di_start =>
                 /\ Did(pid, "nurse_assess_start") => Did(pid, "nurse_assess_end")
                 /\ Did(pid, "nurse_assess_end") =>
                      /\ RowBefore("nurse_assess_end", pid, "di_start", pid)
                      /\ RowTime("nurse_assess_end", pid) <= RowTime("di_start", pid)
                 /\ Did(pid, "lab_start") =>
                      /\ Did(pid, "lab_end")
                      /\ RowBefore("lab_end", pid, "di_start", pid)
                      /\ RowTime("lab_end", pid) <= RowTime("di_start", pid)
            /\ Did(pid, "reassess_start") =>
                 /\ p.di_start =>
                      /\ Did(pid, "di_end")
                      /\ RowBefore("di_end", pid, "reassess_start", pid)
                 /\ p.requires_di = 1 => p.di_start
       /\ p.area = _ft_name =>
            /\ (requires_lab(p) = 1 /\ p.requires_di = 1) =>
                 /\ Did(pid, "lab_start") <=> p.di_start
                 /\ Did(pid, "lab_start") => RowTime("lab_start", pid) = RowTime("di_start", pid)
            /\ PastFastOrders(p) =>
                 /\ requires_lab(p) = 1 => Did(pid, "lab_end")
                 /\ p.requires_di = 1 => Did(pid, "di_end")

\* An acute patient of two or three touches is being reassessed after
\* nursing, labs and imaging, and a fast-track patient has gone on after
\* labs and imaging.
C36_BothWorkupsDone ==
  \E p1 \in Pids, p2 \in Pids :
    /\ patients[p1].area # _ft_name
    /\ two_touch(patients[p1]) = 1 \/ three_touch(patients[p1]) = 1
    /\ Did(p1, "nurse_assess_end") /\ Did(p1, "lab_end")
    /\ Did(p1, "di_end") /\ Did(p1, "reassess_start")
    /\ patients[p2].area = _ft_name
    /\ PastFastOrders(patients[p2])
    /\ Did(p2, "lab_end") /\ Did(p2, "di_end")

\* -------------------------------------------------------------- discharge
\* The patients in a bed of an area, and on the panel of a doctor.
InBedOf(area) ==
  {pid \in Pids : /\ patients[pid].area = area
                  /\ patients[pid].bed_start /\ ~patients[pid].bed_end}

OnPanelOf(d) ==
  {pid \in Pids : /\ patients[pid].doctor_name = d
                  /\ patients[pid].bed_start /\ ~patients[pid].bed_end}

\* What every process sees between the steps: bed_end, disposition_time
\* and los_minutes are set together, the occupancy of an area is the number
\* of its patients in bed, the panel of a doctor the number of the
\* doctor's patients in bed.
DischargeSeenWhole ==
  /\ \A pid \in Pids :
       patients[pid].bed_end
         => /\ patients[pid].disposition_time # None
            /\ patients[pid].los_minutes # None
            /\ patients[pid].treat = "done"
  /\ \A a \in AcuteAreas : _busy[a] = Cardinality(InBedOf(a))
  /\ _ft_busy = Cardinality(InBedOf(_ft_name))
  /\ \A d \in Doctors : _doctors_by_area[d].active_panel = Cardinality(OnPanelOf(d))

\* The step that sets bed_end does the rest of the discharge.
DischargeStep ==
  \A pid \in Pids :
    (~patients[pid].bed_end /\ patients'[pid].bed_end) =>
      LET p == patients[pid]
      IN /\ patients'[pid].disposition_time = now
         /\ patients'[pid].los_minutes = now - p.arrival_time
         /\ IF p.area = _ft_name
            THEN _ft_busy' = _ft_busy - 1 /\ _busy' = _busy
            ELSE _busy' = [_busy EXCEPT ![p.area] = @ - 1] /\ _ft_busy' = _ft_busy
         /\ _doctors_by_area' =
              [_doctors_by_area EXCEPT ![p.doctor_name].active_panel = @ - 1]

\* C38: discharge is atomic with respect to every other process: bed_end,
\* disposition_time and los_minutes are set, the occupancy of the area is
\* decremented and the doctor's panel released in one step, so no
\* dispatcher or other process observes a state in which only part of
\* these updates has been applied.
C38_DischargeAtomic == []DischargeSeenWhole /\ [][DischargeStep]_vars

\* A patient has been discharged while another is in a bed.
C38_DischargedBesidePatientInBed ==
  \E p1 \in Pids, p2 \in Pids :
    /\ patients[p1].bed_end /\ patients[p1].treat = "done"
    /\ patients[p2].bed_start /\ ~patients[p2].bed_end
    /\ patients[p1].area = patients[p2].area

\* ------------------------------------------------- the generators' clock
\* C39: every iteration of a generator's hourly loop advances the clock to
\* the next hour boundary, also for an hour with no arrivals or with
\* offsets that are all 0: a generator at the top of its loop for hour
\* hour_idx finds the clock at that hour's boundary, and hour_idx never
\* moves on at an unchanged clock.
C39_LoopIterationAdvancesClock ==
  \A g \in Generators :
    generators[g].pc = "loop" => now = generators[g].hour_idx * HourMinutes

\* ------------------------------------------- reservation and dequeue
\* The signups a doctor has collected, over the hours.
RECURSIVE SignupsUpTo(_, _)
SignupsUpTo(d, h) ==
  IF h < 0 THEN 0
  ELSE _doctors_by_area[d].signed_up_by_abs_hour[h] + SignupsUpTo(d, h - 1)

PlacedWith(d) ==
  {pid \in Pids : patients[pid].doctor_name = d /\ patients[pid].bed_start}

\* Every booking belongs to a patient placed in a bed: a doctor's signups
\* are as many as the patients placed with the doctor, the panel is not
\* larger, and a patient with a doctor has a bed and is in no queue.
BookingsArePlacements ==
  /\ \A d \in Doctors :
       /\ SignupsUpTo(d, MaxHour) = Cardinality(PlacedWith(d))
       /\ _doctors_by_area[d].active_panel <= Cardinality(PlacedWith(d))
  /\ \A pid \in Pids :
       patients[pid].doctor_name # "none"
         => /\ patients[pid].bed_start
            /\ ~InSeq(acute_q, pid)

\* The step that books a doctor takes the patient out of the acute queue
\* and puts it in a bed.
BookingStep ==
  \A d \in Doctors :
    _doctors_by_area'[d] # _doctors_by_area[d]
      /\ _doctors_by_area'[d].active_panel >= _doctors_by_area[d].active_panel
      => \E pid \in Pids :
           /\ ~patients[pid].bed_start /\ patients'[pid].bed_start
           /\ patients'[pid].doctor_name = d
           /\ patients[pid].area # _ft_name
                => InSeq(acute_q, pid) /\ ~InSeq(acute_q', pid)

\* C40: in the acute dispatcher no other process runs between the doctor
\* reservation for the chosen candidate and its removal from the acute
\* queue, so the removal never fails and the rollback branch is never
\* taken; no doctor booking, on the panel or in the hourly signup count,
\* remains for a patient who was not placed in a bed.
C40_ReservationAndDequeueInOneStep ==
  []BookingsArePlacements /\ [][BookingStep]_vars

\* A patient has been placed while its abandonment timer was still armed,
\* and another patient has abandoned the queue.
C40_PlacedWhileTimerArmed ==
  \E p1 \in Pids, p2 \in Pids :
    /\ patients[p1].bed_start /\ patients[p1].doctor_name # "none"
    /\ patients[p1].watch = "armed"
    /\ patients[p2].lwbs = 1

====
